---------------------------- MODULE Spec2Model ----------------------------
(***************************************************************************)
(* A model of the metrics instrumentation of the DevOps-Challenge          *)
(* repository: the outcome tracker of prometheus-functions                 *)
(* (prometheus/outcomes.py), its HTTP middleware chain                     *)
(* (prometheus/prometheus.py), the instrumented functions and endpoints    *)
(* of prometheus-functions/main.py, and the vm-agents outcome helpers.     *)
(*                                                                         *)
(* The module holds several specifications over one set of variables;      *)
(* each specification drives one part and leaves the others idle.          *)
(***************************************************************************)
EXTENDS Integers, Sequences, FiniteSets, TLC

(***************************************************************************)
(* Bounds of the model.                                                    *)
(***************************************************************************)
\* asyncio tasks / threads whose contexts the tracker specification follows
MaxTasks == 2
\* tracker calls (mark_*, reset_outcome) made in one behaviour
MaxSteps == 3

\* HTTP requests in flight in one behaviour of the middleware chain
MaxReqs == 2
\* requests and invocations of instrumented functions made in one behaviour
MaxCalls == 2
\* script.py instances started
MaxWorkers == 2
\* loop iterations of all script instances and marks of both pods together
MaxOperations == 2
\* observations made on one histogram series
MaxObservations == 3
\* push_to_gateway calls of the background task
MaxPushes == 2
\* buckets in bucket.json
MaxBuckets == 3

Tasks == 1..MaxTasks
Reqs == 1..MaxReqs

(***************************************************************************)
(* Outcome tracker, prometheus-functions/prometheus/outcomes.py            *)
(***************************************************************************)
\* function names the callers of main.py pass to mark_success / mark_failure
FunctionNames == {"fetch_user_data", "async_api_call"}
\* the two status label values written by outcomes.py
Statuses == {"success", "failed"}
\* an outcome_key, outcomes.py:27
Keys == FunctionNames \X Statuses
\* duration arguments of mark_latency, in tenths of a second
Durations == {2, 15}
\* how a call on an instrument can end: normally, or with labels() or the
\* update (inc / observe / dec) raising
Faults == {"ok", "labels", "update"}

VARIABLES
    inject,            \* whether instrument calls may raise in this behaviour
    task_state,        \* per task: "idle" (not created) or "running"
    outcomes_marked,   \* ContextVar _outcomes_marked per task context:
                       \* 0 is None, n > 0 is a reference to set_objs[n]
    set_objs,          \* the set objects ever stored in the ContextVar
    LLM_CALLS,         \* Counter llm_calls_total, per (function, status)
    LLM_LATENCY,       \* Histogram of mark_latency per function: count, sum
    call_result,       \* how the last tracker call ended
    steps,             \* tracker calls made so far
    \* history variables (not read by the program)
    calls,             \* per set object and key: mark calls that read it
    incs,              \* per set object and key: increments made through it
    isolated,          \* per task: the tracked set it would hold if no other
                       \* task could touch it
    hits,              \* per task and key: increments its own calls made
    fresh,             \* per task: its last tracker call was reset_outcome()
    \* vm-agents/app/prometheus/outcomes.py
    VM_LLM_CALLS,      \* Counter llm_calls_total of the vm-agents package
    VM_LLM_LATENCY,    \* its latency Histogram per function: count, sum
    vm_call_result,    \* how the last vm-agents tracker call ended
    vm_marked,         \* history: the (function, status) pairs marked since
                       \* the last vm-agents reset_outcome()
    \* prometheus/prometheus.py (both packages)
    installed,         \* the middlewares added with app.add_middleware
    variant,           \* which package's middlewares run: "pf" is
                       \* prometheus-functions, "vm" is vm-agents
    REQUEST_TOTAL,     \* Counter http_requests_total: series -> value
    REQUEST_DURATION,  \* Histogram http_request_duration_ms: series ->
                       \* count and sum
    ACTIVE_REQUESTS,   \* Gauge http_requests_active{endpoint="all"}
    API_ACTIVE_REQUESTS, \* the same Gauge as vm_agents/api.py uses it, one
                       \* series per endpoint label: series -> value
    rq,                \* per request: where it is in the chain and what it
                       \* carries
    \* main.py
    inv,               \* per task: the instrumented function it is running,
                       \* its arguments and where it is in the function
    \* monitor/app/main.py
    request_counter,   \* OTel counter http_requests_total: series -> value
    request_duration,  \* OTel histogram http_request_duration_seconds:
                       \* series -> count and sum
    scrape,            \* history, per request: the exposition the mounted
                       \* metrics app generated for it, and the requests
                       \* the server had seen by then
    \* vm_agents/script.py, vm_agents/main.py, vm_agents/metrics.py
    registries,        \* the CollectorRegistry objects: per registry, the
                       \* series of each metric registered in it
    worker,            \* per script instance: where run_worker is, the
    script,            \* one run_worker call of script.py: its locals and metrics
    day2,              \* one run of day2/main.py: its globals and its output
                       \* registry it created, its instance id and count
    \* one series of the Histogram REQUEST_DURATION with its buckets
    histogram,         \* per bucket, the observations that fell into it
                       \* (not cumulative), and the sum of all observations
    \* the event loop of prometheus-functions/main.py
    push,              \* the task push_task: where push_metrics_to_gateway
                       \* is, whether it was cancelled, and its history
    running            \* the task that occupies the event loop: 0 is none,
                       \* a request's task, or PushTask

trackerVars == <<task_state, outcomes_marked, set_objs, LLM_CALLS,
                 LLM_LATENCY, call_result, calls, incs, isolated, hits, fresh>>

vmVars == <<VM_LLM_CALLS, VM_LLM_LATENCY, vm_call_result, vm_marked>>

httpVars == <<installed, variant, REQUEST_TOTAL, REQUEST_DURATION, ACTIVE_REQUESTS,
              API_ACTIVE_REQUESTS, rq>>

appVars == <<inv>>

monVars == <<request_counter, request_duration, scrape>>

regVars == <<registries, worker, script, day2>>

histVars == <<histogram>>

loopVars == <<push, running>>

sideVars == <<monVars, regVars, histVars, loopVars>>

vars == <<inject, steps, trackerVars, vmVars, httpVars, appVars, sideVars>>

\* a count of 0 for every series of LLM_CALLS
ZeroKeys == [k \in DOMAIN LLM_CALLS |-> 0]

\* the tracked set a task's context holds (empty when the ContextVar is None)
Tracked(t) == IF outcomes_marked[t] = 0 THEN {} ELSE set_objs[outcomes_marked[t]]

\* the faults a call may meet in this behaviour
MayFault == IF inject THEN Faults ELSE {"ok"}

\* mutant: the handler lets the exception through
ExceptPassReraises(exc) == [fault |-> exc, ended |-> "raised"]
\* `except Exception: pass`: the exception is swallowed, the call returns
ExceptPass(exc) == [fault |-> exc, ended |-> "returned"]
\* a call that met no exception
Returned == [fault |-> "ok", ended |-> "returned"]
NoCall == [fault |-> "ok", ended |-> "none"]

\* the tracker after import, in a process whose callers pass the outcome
\* keys `keys`
TrackerOver(keys) ==
    /\ task_state = [t \in Tasks |-> "idle"]
    /\ outcomes_marked = [t \in Tasks |-> 0]
    /\ set_objs = <<>>
    /\ LLM_CALLS = [k \in keys |-> 0]
    /\ LLM_LATENCY = [f \in FunctionNames |-> [count |-> 0, sum |-> 0]]
    /\ call_result = NoCall
    /\ steps = 0
    /\ fresh = [t \in Tasks |-> FALSE]
    /\ calls = <<>>
    /\ incs = <<>>
    /\ isolated = [t \in Tasks |-> {}]
    /\ hits = [t \in Tasks |-> [k \in keys |-> 0]]

TrackerInit == TrackerOver(Keys)

\* mutant: the key is never added to the tracked set
MarkBodyForgetsKey(t, key, fault) ==
    /\ isolated' = [isolated EXCEPT ![t] = @ \cup {key}]
    /\ fresh' = [fresh EXCEPT ![t] = FALSE]
    /\ call_result' = Returned
    /\ LLM_CALLS' = [LLM_CALLS EXCEPT ![key] = @ + 1]
    /\ hits' = [hits EXCEPT ![t][key] = @ + 1]
    /\ IF outcomes_marked[t] = 0
         THEN /\ set_objs' = Append(set_objs, {})
              /\ outcomes_marked' = [outcomes_marked EXCEPT ![t] = Len(set_objs) + 1]
              /\ calls' = Append(calls, [ZeroKeys EXCEPT ![key] = 1])
              /\ incs' = Append(incs, [ZeroKeys EXCEPT ![key] = 1])
         ELSE /\ UNCHANGED <<set_objs, outcomes_marked>>
              /\ calls' = [calls EXCEPT ![outcomes_marked[t]][key] = @ + 1]
              /\ incs' = [incs EXCEPT ![outcomes_marked[t]][key] = @ + 1]

\* mutant: the key is added to the tracked set before the increment, so a
\* raising increment leaves it there
MarkBodyAddsFirst(t, key, fault) ==
    /\ isolated' = [isolated EXCEPT ![t] = @ \cup {key}]
    /\ fresh' = [fresh EXCEPT ![t] = FALSE]
    /\ call_result' = IF fault = "ok" THEN Returned ELSE ExceptPass(fault)
    /\ IF outcomes_marked[t] = 0
         THEN /\ set_objs' = Append(set_objs, {key})
              /\ outcomes_marked' = [outcomes_marked EXCEPT ![t] = Len(set_objs) + 1]
              /\ calls' = Append(calls, [ZeroKeys EXCEPT ![key] = 1])
              /\ incs' = Append(incs, [ZeroKeys EXCEPT ![key] = IF fault = "ok" THEN 1 ELSE 0])
              /\ LLM_CALLS' = IF fault = "ok" THEN [LLM_CALLS EXCEPT ![key] = @ + 1]
                              ELSE LLM_CALLS
              /\ hits' = IF fault = "ok" THEN [hits EXCEPT ![t][key] = @ + 1] ELSE hits
         ELSE LET seen == key \in set_objs[outcomes_marked[t]]
                  applied == ~seen /\ fault = "ok"
              IN  /\ set_objs' = [set_objs EXCEPT ![outcomes_marked[t]] = @ \cup {key}]
                  /\ outcomes_marked' = outcomes_marked
                  /\ calls' = [calls EXCEPT ![outcomes_marked[t]][key] = @ + 1]
                  /\ incs' = IF applied
                               THEN [incs EXCEPT ![outcomes_marked[t]][key] = @ + 1]
                               ELSE incs
                  /\ LLM_CALLS' = IF applied THEN [LLM_CALLS EXCEPT ![key] = @ + 1]
                                  ELSE LLM_CALLS
                  /\ hits' = IF applied THEN [hits EXCEPT ![t][key] = @ + 1] ELSE hits

\* mutant: the tracked set is searched for the function name alone
AlreadyMarkedByName(outcome_key, marked_outcomes) ==
    \E k \in marked_outcomes : k[1] = outcome_key[1]
\* `if outcome_key in marked_outcomes`
AlreadyMarked(outcome_key, marked_outcomes) == outcome_key \in marked_outcomes

\* the body shared by mark_success and mark_failure (both branches of
\* _is_async_context() run the same statements)
MarkBody(t, key, fault) ==
    LET ref == outcomes_marked[t]
        \* marked_outcomes = _outcomes_marked.get(); a fresh set() when None
        marked_outcomes == Tracked(t)
        new == Len(set_objs) + 1
    IN  /\ isolated' = [isolated EXCEPT ![t] =
                           IF fault = "ok" THEN @ \cup {key} ELSE @]
        /\ fresh' = [fresh EXCEPT ![t] = FALSE]
        /\ IF AlreadyMarked(key, marked_outcomes)
             THEN \* already recorded: return
                  /\ call_result' = Returned
                  /\ calls' = [calls EXCEPT ![ref][key] = @ + 1]
                  /\ UNCHANGED <<outcomes_marked, set_objs, LLM_CALLS, incs, hits>>
             ELSE IF fault # "ok"
             THEN \* labels() or inc() raised: nothing was recorded
                  /\ call_result' = ExceptPass(fault)
                  /\ calls' = IF ref = 0 THEN calls
                              ELSE [calls EXCEPT ![ref][key] = @ + 1]
                  /\ UNCHANGED <<outcomes_marked, set_objs, LLM_CALLS, incs, hits>>
             ELSE \* inc(); marked_outcomes.add(key); _outcomes_marked.set(...)
                  /\ call_result' = Returned
                  /\ LLM_CALLS' = [LLM_CALLS EXCEPT ![key] = @ + 1]
                  /\ hits' = [hits EXCEPT ![t][key] = @ + 1]
                  /\ IF ref = 0
                       THEN /\ set_objs' = Append(set_objs, {key})
                            /\ outcomes_marked' = [outcomes_marked EXCEPT ![t] = new]
                            /\ calls' = Append(calls, [ZeroKeys EXCEPT ![key] = 1])
                            /\ incs' = Append(incs, [ZeroKeys EXCEPT ![key] = 1])
                       ELSE \* the set object is mutated in place
                            /\ set_objs' = [set_objs EXCEPT ![ref] = @ \cup {key}]
                            /\ outcomes_marked' = outcomes_marked
                            /\ calls' = [calls EXCEPT ![ref][key] = @ + 1]
                            /\ incs' = [incs EXCEPT ![ref][key] = @ + 1]

\* mutant: the reset clears nothing
ResetBodyKeepsSet(t) ==
    /\ call_result' = Returned
    /\ isolated' = [isolated EXCEPT ![t] = {}]
    /\ fresh' = [fresh EXCEPT ![t] = TRUE]
    /\ UNCHANGED <<outcomes_marked, set_objs, calls, incs>>

\* _outcomes_marked.set(set()): a new, empty set object for this context
ResetBody(t) ==
    /\ set_objs' = Append(set_objs, {})
    /\ outcomes_marked' = [outcomes_marked EXCEPT ![t] = Len(set_objs) + 1]
    /\ calls' = Append(calls, ZeroKeys)
    /\ incs' = Append(incs, ZeroKeys)
    /\ call_result' = Returned
    /\ isolated' = [isolated EXCEPT ![t] = {}]
    /\ fresh' = [fresh EXCEPT ![t] = TRUE]

\* mutant: only the first latency of a function is observed
LatencyBodyOncePerFunction(t, fn, d, fault) ==
    /\ call_result' = Returned
    /\ LLM_LATENCY' = IF LLM_LATENCY[fn].count > 0 THEN LLM_LATENCY
                      ELSE [LLM_LATENCY EXCEPT ![fn] = [count |-> 1, sum |-> d]]
\* LLM_LATENCY.labels(function=...).observe(duration_seconds)
LatencyBody(t, fn, d, fault) ==
    IF fault # "ok"
      THEN /\ call_result' = ExceptPass(fault)
           /\ UNCHANGED LLM_LATENCY
      ELSE /\ call_result' = Returned
           /\ LLM_LATENCY' = [LLM_LATENCY EXCEPT ![fn] =
                                 [count |-> @.count + 1, sum |-> @.sum + d]]

\* what the calls of the prometheus-functions tracker leave alone
TrackerFrame == UNCHANGED <<vmVars, httpVars, appVars, sideVars>>

(***************************************************************************)
(* The tracker driven by arbitrary callers: tasks are created with the     *)
(* server's base context or as children of a running task, and call the    *)
(* four functions in any order.                                            *)
(***************************************************************************)
\* a task created by the server for a request: the base context, in which
\* _outcomes_marked was never set
StartTask(t) ==
    /\ task_state[t] = "idle"
    /\ \A u \in Tasks : u < t => task_state[u] = "running"
    /\ task_state' = [task_state EXCEPT ![t] = "running"]
    /\ UNCHANGED <<inject, outcomes_marked, set_objs, LLM_CALLS, LLM_LATENCY,
                   call_result, steps, calls, incs, isolated, hits, fresh>>
    /\ TrackerFrame

\* asyncio.gather / create_task: the child runs in a copy of the parent's
\* context, so its ContextVar holds the same reference
SpawnTask(p, c) ==
    /\ task_state[p] = "running"
    /\ task_state[c] = "idle"
    /\ \A u \in Tasks : u < c => task_state[u] = "running"
    /\ task_state' = [task_state EXCEPT ![c] = "running"]
    /\ outcomes_marked' = [outcomes_marked EXCEPT ![c] = outcomes_marked[p]]
    /\ isolated' = [isolated EXCEPT ![c] = Tracked(p)]
    /\ fresh' = [fresh EXCEPT ![p] = FALSE]
    /\ UNCHANGED <<inject, set_objs, LLM_CALLS, LLM_LATENCY, call_result,
                   steps, calls, incs, hits>>
    /\ TrackerFrame

mark_success(t, function_name) ==
    /\ task_state[t] = "running"
    /\ steps < MaxSteps
    /\ steps' = steps + 1
    /\ \E fault \in MayFault : MarkBody(t, <<function_name, "success">>, fault)
    /\ UNCHANGED <<inject, task_state, LLM_LATENCY>>
    /\ TrackerFrame

mark_failure(t, function_name) ==
    /\ task_state[t] = "running"
    /\ steps < MaxSteps
    /\ steps' = steps + 1
    /\ \E fault \in MayFault : MarkBody(t, <<function_name, "failed">>, fault)
    /\ UNCHANGED <<inject, task_state, LLM_LATENCY>>
    /\ TrackerFrame

mark_latency(t, function_name, duration_seconds) ==
    /\ task_state[t] = "running"
    /\ steps < MaxSteps
    /\ steps' = steps + 1
    /\ \E fault \in MayFault : LatencyBody(t, function_name, duration_seconds, fault)
    /\ UNCHANGED <<inject, task_state, outcomes_marked, set_objs, LLM_CALLS,
                   calls, incs, isolated, hits, fresh>>
    /\ TrackerFrame

reset_outcome(t) ==
    /\ task_state[t] = "running"
    /\ steps < MaxSteps
    /\ steps' = steps + 1
    /\ ResetBody(t)
    /\ UNCHANGED <<inject, task_state, LLM_CALLS, LLM_LATENCY, hits>>
    /\ TrackerFrame

TrackerNext ==
    \/ \E t \in Tasks : StartTask(t)
    \/ \E p, c \in Tasks : SpawnTask(p, c)
    \/ \E t \in Tasks, fn \in FunctionNames : mark_success(t, fn)
    \/ \E t \in Tasks, fn \in FunctionNames : mark_failure(t, fn)
    \/ \E t \in Tasks, fn \in FunctionNames, d \in Durations : mark_latency(t, fn, d)
    \/ \E t \in Tasks : reset_outcome(t)

(***************************************************************************)
(* vm-agents/app/prometheus/outcomes.py: the same four functions without   *)
(* a tracked set.                                                          *)
(***************************************************************************)
\* the status label values this package writes
VmStatuses == {"success", "failure"}
VmKeys == FunctionNames \X VmStatuses

VmInit ==
    /\ VM_LLM_CALLS = [k \in VmKeys |-> 0]
    /\ VM_LLM_LATENCY = [f \in FunctionNames |-> [count |-> 0, sum |-> 0]]
    /\ vm_call_result = NoCall
    /\ vm_marked = {}

\* `except Exception as e: logger.error(...)`: logged and swallowed
VmExceptLog(exc) == [fault |-> exc, ended |-> "returned"]

\* what the calls of the vm-agents tracker leave alone
VmFrame == UNCHANGED <<inject, trackerVars, httpVars, appVars, sideVars>>

\* LLM_CALLS.labels(function=function_name, status=...).inc() under try/except
VmMark(key, fault) ==
    /\ steps < MaxSteps
    /\ steps' = steps + 1
    /\ IF fault # "ok"
         THEN /\ vm_call_result' = VmExceptLog(fault)
              /\ UNCHANGED VM_LLM_CALLS
         ELSE /\ vm_call_result' = Returned
              /\ VM_LLM_CALLS' = [VM_LLM_CALLS EXCEPT ![key] = @ + 1]
    /\ vm_marked' = IF fault = "ok" THEN vm_marked \cup {key} ELSE vm_marked
    /\ UNCHANGED VM_LLM_LATENCY
    /\ VmFrame

vm_mark_success(function_name) ==
    \E fault \in MayFault : VmMark(<<function_name, "success">>, fault)

vm_mark_failure(function_name) ==
    \E fault \in MayFault : VmMark(<<function_name, "failure">>, fault)

\* duration_seconds = duration_ms / 1000.0; observe(duration_seconds)
vm_mark_latency(function_name, duration_ms) ==
    /\ steps < MaxSteps
    /\ steps' = steps + 1
    /\ \E fault \in MayFault :
         IF fault # "ok"
           THEN /\ vm_call_result' = VmExceptLog(fault)
                /\ UNCHANGED VM_LLM_LATENCY
           ELSE /\ vm_call_result' = Returned
                /\ VM_LLM_LATENCY' = [VM_LLM_LATENCY EXCEPT ![function_name] =
                        [count |-> @.count + 1, sum |-> @.sum + duration_ms]]
    /\ UNCHANGED <<VM_LLM_CALLS, vm_marked>>
    /\ VmFrame

\* "No-op for backward compatibility."
vm_reset_outcome ==
    /\ steps < MaxSteps
    /\ steps' = steps + 1
    /\ vm_call_result' = Returned
    /\ vm_marked' = {}
    /\ UNCHANGED <<VM_LLM_CALLS, VM_LLM_LATENCY>>
    /\ VmFrame

\* the registries of the vm-agents prometheus package: GLOBAL_REGISTRY of
\* registry.py, which __init__.py exports as REGISTRY, and the REGISTRY that
\* functions.py creates for itself
GLOBAL_REGISTRY == "GLOBAL_REGISTRY"
FUNCTIONS_REGISTRY == "functions.REGISTRY"
VmExportedRegistry == GLOBAL_REGISTRY

\* the registry= argument of each instrument of the package
VmRegistryOf ==
    [http_requests_total |-> GLOBAL_REGISTRY,
     http_request_duration_ms |-> GLOBAL_REGISTRY,
     http_requests_active |-> GLOBAL_REGISTRY,
     llm_calls_total |-> FUNCTIONS_REGISTRY,
     llm_function_latency_seconds |-> FUNCTIONS_REGISTRY]

\* the instrument objects behind the metric names
VmInstruments ==
    [http_requests_total |-> REQUEST_TOTAL,
     http_request_duration_ms |-> REQUEST_DURATION,
     http_requests_active |-> ACTIVE_REQUESTS,
     llm_calls_total |-> VM_LLM_CALLS,
     llm_function_latency_seconds |-> VM_LLM_LATENCY]

\* registry.collect(): the instruments registered in the registry
VmCollect(registry) ==
    [name \in {n \in DOMAIN VmRegistryOf : VmRegistryOf[n] = registry} |->
        VmInstruments[name]]

VmNext ==
    \/ \E fn \in FunctionNames : vm_mark_success(fn)
    \/ \E fn \in FunctionNames : vm_mark_failure(fn)
    \/ \E fn \in FunctionNames, d \in Durations : vm_mark_latency(fn, d)
    \/ vm_reset_outcome

(***************************************************************************)
(* HTTP middleware chain, prometheus/prometheus.py.  main.py adds          *)
(* GaugeMiddleware, HistogramMiddleware, CounterMiddleware in this order   *)
(* and the last added runs first: Counter is outermost, Gauge innermost.   *)
(* Every `await call_next(request)` is a point where another request may   *)
(* run; the statements between two awaits are one step.                    *)
(***************************************************************************)
\* the requests the clients send: method, raw path, and the route template
\* the router matches for the path ("none": no route, a 404 response)
RequestKinds ==
    { [method |-> "GET", path |-> "/api/user/1", route |-> "/api/user/{user_id}"],
      [method |-> "GET", path |-> "/missing", route |-> "none"] }
\* exceptions a handler may raise
Exceptions == {"ValueError", "KeyError"}
\* elapsed times (time.time() - start_time) * 1000 a request may measure
DurationsMs == {5, 300}

\* the elapsed times a behaviour draws from: one value when recording calls
\* may raise, to keep that state space small
MayMeasure == IF inject THEN {5} ELSE DurationsMs
\* the exceptions a handler raises in a behaviour, likewise
MayRaise == IF inject THEN {"ValueError"} ELSE Exceptions

\* what travels up the chain: nothing yet, a response, or an exception
NoFlow == [kind |-> "none", val |-> "none"]
Response(status) == [kind |-> "response", val |-> status]
Raised(exc) == [kind |-> "exc", val |-> exc]
\* asyncio.CancelledError thrown in at an await: a BaseException, which
\* `except Exception` does not catch
Cancelled == [kind |-> "cancel", val |-> "CancelledError"]

\* str(status_code) for the status codes that occur
Str(code) ==
    CASE code = 200 -> "200" [] code = 307 -> "307" [] code = 404 -> "404"
      [] code = 500 -> "500"

IdleReq == [pc |-> "idle", method |-> "none", path |-> "none", route |-> "none",
            scope_route |-> "none", endpoint |-> "none", flow |-> NoFlow,
            \* history: what the handler produced, what each middleware
            \* recorded for this request, the faults it met
            handled |-> NoFlow, counted |-> <<>>, observed |-> <<>>,
            ginc |-> 0, gdec |-> 0, faulted |-> {}]

\* the three middlewares of prometheus.py
Middlewares == {"counter", "histogram", "gauge"}
\* whether app.add_middleware was called for the middleware
Installed(middleware) == middleware \in installed
\* the faults a recording call of a middleware may meet: a middleware that
\* is not installed makes no call
FaultsOf(middleware) == IF Installed(middleware) THEN MayFault ELSE {"ok"}

\* the instruments after import, with app.add_middleware called for `added`
HttpOver(added) ==
    /\ installed = added
    /\ REQUEST_TOTAL = <<>>
    /\ REQUEST_DURATION = <<>>
    /\ ACTIVE_REQUESTS = 0
    /\ API_ACTIVE_REQUESTS = <<>>
    /\ rq = [r \in Reqs |-> IdleReq]

\* main.py adds all three
HttpInit == HttpOver(Middlewares)

\* the value of a series (0 when labels() never created it)
Value(metric, labels) == IF labels \in DOMAIN metric THEN metric[labels] ELSE 0

\* mutant: the update writes back a stale value
IncLost(metric, labels) ==
    IF labels \in DOMAIN metric THEN [metric EXCEPT ![labels] = 1]
    ELSE metric @@ (labels :> 1)
\* metric.labels(...).inc(): the series is created on first use
Inc(metric, labels) ==
    IF labels \in DOMAIN metric THEN [metric EXCEPT ![labels] = @ + 1]
    ELSE metric @@ (labels :> 1)

\* metric.labels(...).observe(v)
Observe(metric, labels, v) ==
    IF labels \in DOMAIN metric
      THEN [metric EXCEPT ![labels] = [count |-> @.count + 1, sum |-> @.sum + v]]
      ELSE metric @@ (labels :> [count |-> 1, sum |-> v])

\* mutant: the raw path is always used
NormalizedEndpointRawPath(q) == q.path
\* _get_normalized_endpoint: the route template when the router has put the
\* route in the scope, else the raw path
NormalizedEndpoint(q) == IF q.scope_route # "none" THEN q.scope_route ELSE q.path

\* mutant: a failed recording call replaces what the request carries
MetricErrorPropagates(flow, fault) ==
    IF fault = "ok" THEN flow ELSE Raised("metric_error")
\* prometheus-functions: `except Exception as metric_error: logger.error(...)`
\* around every recording call: the request carries on with what it had
MetricErrorLogged(flow, fault) == flow

\* what a recording call of this package does to what the request carries:
\* vm-agents has no try/except around its recording calls
AfterRecording(flow, fault) ==
    IF variant = "pf" THEN MetricErrorLogged(flow, fault)
    ELSE IF fault = "ok" THEN flow ELSE Raised("metric_error")

\* mutant: nothing is recorded unless GaugeMiddleware is installed too
RecordsWithGaugeOnly(flow) == "gauge" \in installed /\ flow.kind # "cancel"
\* mutant: the counter is recorded only when the handler returned
RecordsOnResponseOnly(flow) == flow.kind = "response"
\* prometheus-functions records on both paths (the except branch records and
\* re-raises); `except Exception` lets a CancelledError pass unrecorded
RecordsOnBothPaths(flow) == flow.kind # "cancel"

\* whether Counter and Histogram record for what came up the chain: the
\* vm-agents middlewares have no except branch
Records(flow) ==
    IF variant = "pf" THEN RecordsOnBothPaths(flow) ELSE flow.kind = "response"

\* status_code: response.status_code, or 500 when the handler raised
StatusCode(flow) == IF flow.kind = "exc" THEN 500 ELSE flow.val

\* mutant: the decrement is skipped when the handler raised
DecOnResponseOnly(flow) == flow.kind = "response"
\* `finally:` runs the decrement whether call_next returned or raised
DecInFinally(flow) == TRUE

HttpFrame ==
    UNCHANGED <<inject, steps, trackerVars, vmVars, installed, variant, appVars,
                API_ACTIVE_REQUESTS, sideVars>>

Set(r, fields) == rq' = [rq EXCEPT ![r] = fields]

\* the server hands a request to the outermost middleware,
\* CounterMiddleware.dispatch: status_code = 500; await call_next(request)
Arrive(r, k) ==
    /\ rq[r].pc = "idle"
    /\ \A u \in Reqs : u < r => rq[u].pc # "idle"
    /\ Set(r, [rq[r] EXCEPT !.pc = "histogram", !.method = k.method,
                            !.path = k.path, !.route = k.route])
    /\ UNCHANGED <<REQUEST_TOTAL, REQUEST_DURATION, ACTIVE_REQUESTS>>
    /\ HttpFrame

\* HistogramMiddleware.dispatch: start_time = time.time(); await call_next
HistogramEnter(r) ==
    /\ rq[r].pc = "histogram"
    /\ Set(r, [rq[r] EXCEPT !.pc = "gauge"])
    /\ UNCHANGED <<REQUEST_TOTAL, REQUEST_DURATION, ACTIVE_REQUESTS>>
    /\ HttpFrame

\* GaugeMiddleware.dispatch: ACTIVE_REQUESTS.labels(endpoint="all").inc(),
\* then await call_next.  vm-agents calls inc() outside any try: when it
\* raises, the handler is not called and the exception goes up the chain.
GaugeEnter(r) ==
    /\ rq[r].pc = "gauge"
    /\ \E fault \in FaultsOf("gauge") :
         LET after == AfterRecording(NoFlow, fault)
             applied == Installed("gauge") /\ fault = "ok"
         IN  /\ ACTIVE_REQUESTS' = IF applied THEN ACTIVE_REQUESTS + 1
                                   ELSE ACTIVE_REQUESTS
             /\ Set(r, [rq[r] EXCEPT
                    !.pc = IF after.kind = "exc" THEN "histogram_record" ELSE "handler",
                    !.flow = after,
                    !.ginc = IF applied THEN @ + 1 ELSE @,
                    !.faulted = IF fault = "ok" THEN @ ELSE @ \cup {"gauge_inc"}])
    /\ UNCHANGED <<REQUEST_TOTAL, REQUEST_DURATION>>
    /\ HttpFrame

\* the router and the endpoint: a matched route is put in the scope and the
\* handler returns a response or raises; no route gives a 404 response
Handler(r) ==
    /\ rq[r].pc = "handler"
    /\ \E out \in IF rq[r].route = "none" THEN {Response(404)}
                  ELSE {Response(200)} \cup {Raised(e) : e \in MayRaise} :
         Set(r, [rq[r] EXCEPT !.pc = "gauge_finally", !.scope_route = rq[r].route,
                              !.flow = out, !.handled = out])
    /\ UNCHANGED <<REQUEST_TOTAL, REQUEST_DURATION, ACTIVE_REQUESTS>>
    /\ HttpFrame

\* GaugeMiddleware.dispatch, the finally block:
\* ACTIVE_REQUESTS.labels(endpoint="all").dec()
GaugeFinally(r) ==
    /\ rq[r].pc = "gauge_finally"
    /\ \E fault \in FaultsOf("gauge") :
         LET applied == Installed("gauge") /\ DecInFinally(rq[r].flow) /\ fault = "ok"
         IN  /\ ACTIVE_REQUESTS' = IF applied THEN ACTIVE_REQUESTS - 1
                                   ELSE ACTIVE_REQUESTS
             /\ Set(r, [rq[r] EXCEPT
                    !.pc = "histogram_record",
                    !.flow = AfterRecording(@, fault),
                    !.gdec = IF applied THEN @ + 1 ELSE @,
                    !.faulted = IF fault = "ok" THEN @ ELSE @ \cup {"gauge_dec"}])
    /\ UNCHANGED <<REQUEST_TOTAL, REQUEST_DURATION>>
    /\ HttpFrame

\* HistogramMiddleware.dispatch after call_next: duration_ms is measured,
\* the endpoint resolved, and REQUEST_DURATION observed
HistogramRecord(r) ==
    /\ rq[r].pc = "histogram_record"
    /\ \E fault \in FaultsOf("histogram"), duration_ms \in MayMeasure :
         LET labels == <<rq[r].method, NormalizedEndpoint(rq[r])>>
             doit == Installed("histogram") /\ Records(rq[r].flow)
             applied == doit /\ fault = "ok"
         IN  /\ REQUEST_DURATION' = IF applied
                                      THEN Observe(REQUEST_DURATION, labels, duration_ms)
                                      ELSE REQUEST_DURATION
             /\ Set(r, [rq[r] EXCEPT
                    !.pc = "counter_record",
                    !.flow = IF doit THEN AfterRecording(@, fault) ELSE @,
                    !.observed = IF applied THEN Append(@, <<labels, duration_ms>>) ELSE @,
                    !.faulted = IF doit /\ fault # "ok" THEN @ \cup {"observe"} ELSE @])
    /\ UNCHANGED <<REQUEST_TOTAL, ACTIVE_REQUESTS>>
    /\ HttpFrame

\* CounterMiddleware.dispatch after call_next: REQUEST_TOTAL is incremented
\* with str(status_code), then the response is returned or the exception
\* re-raised to the server
CounterRecord(r) ==
    /\ rq[r].pc = "counter_record"
    /\ \E fault \in FaultsOf("counter") :
         LET labels == <<rq[r].method, NormalizedEndpoint(rq[r]),
                         Str(StatusCode(rq[r].flow))>>
             doit == Installed("counter") /\ Records(rq[r].flow)
             applied == doit /\ fault = "ok"
         IN  /\ REQUEST_TOTAL' = IF applied THEN Inc(REQUEST_TOTAL, labels)
                                 ELSE REQUEST_TOTAL
             /\ Set(r, [rq[r] EXCEPT
                    !.pc = "done",
                    !.flow = IF doit THEN AfterRecording(@, fault) ELSE @,
                    !.counted = IF applied THEN Append(@, labels) ELSE @,
                    !.faulted = IF doit /\ fault # "ok" THEN @ \cup {"count"} ELSE @])
    /\ UNCHANGED <<REQUEST_DURATION, ACTIVE_REQUESTS>>
    /\ HttpFrame

\* the request's task is cancelled while the handler is in flight (the route
\* is matched): CancelledError is raised at GaugeMiddleware's
\* `await call_next(request)` and unwinds the chain
Cancel(r) ==
    /\ rq[r].pc = "handler"
    /\ rq[r].route # "none"
    /\ Set(r, [rq[r] EXCEPT !.pc = "gauge_finally", !.scope_route = rq[r].route,
                            !.flow = Cancelled, !.handled = Cancelled])
    /\ UNCHANGED <<REQUEST_TOTAL, REQUEST_DURATION, ACTIVE_REQUESTS>>
    /\ HttpFrame

HttpNext ==
    \/ \E r \in Reqs, k \in RequestKinds : Arrive(r, k)
    \/ \E r \in Reqs : HistogramEnter(r)
    \/ \E r \in Reqs : GaugeEnter(r)
    \/ \E r \in Reqs : Handler(r)
    \/ \E r \in Reqs : GaugeFinally(r)
    \/ \E r \in Reqs : HistogramRecord(r)
    \/ \E r \in Reqs : CounterRecord(r)

\* the chain with requests that may be cancelled
HttpCancelNext ==
    \/ HttpNext
    \/ \E r \in Reqs : Cancel(r)

(***************************************************************************)
(* PrometheusMiddleware of vm_agents/api.py: one middleware that resolves  *)
(* the endpoint, moves the gauge and records counter and histogram.  The   *)
(* statements before and after `await call_next(request)` are one step     *)
(* each.                                                                   *)
(***************************************************************************)
\* requests to the routes of api.py: two raw paths of the parameterised
\* route /api/operation/{operation_id}, and a path no route matches
ApiRequestKinds ==
    { [method |-> "GET", path |-> "/api/operation/7",
       route |-> "/api/operation/{operation_id}"],
      [method |-> "GET", path |-> "/api/operation/8",
       route |-> "/api/operation/{operation_id}"],
      [method |-> "GET", path |-> "/missing", route |-> "none"] }

\* metric.labels(...).inc(d) / dec(d) on a gauge series, created on first use
Add(metric, labels, d) ==
    IF labels \in DOMAIN metric THEN [metric EXCEPT ![labels] = @ + d]
    ELSE metric @@ (labels :> d)

\* decrements applied after call_next: the finally block, and before it the
\* except branch when the handler raised
Decs(flow) == IF flow.kind = "exc" THEN 2 ELSE 1

ApiFrame ==
    UNCHANGED <<inject, steps, trackerVars, vmVars, installed, variant, appVars,
                ACTIVE_REQUESTS, sideVars>>

\* dispatch up to call_next: method, path, the endpoint (the router has not
\* run yet), ACTIVE_REQUESTS.labels(endpoint=endpoint).inc(), start_time
ApiEnter(r, k) ==
    /\ rq[r].pc = "idle"
    /\ \A u \in Reqs : u < r => rq[u].pc # "idle"
    /\ LET q == [rq[r] EXCEPT !.method = k.method, !.path = k.path, !.route = k.route]
           endpoint == NormalizedEndpoint(q)
       IN  /\ API_ACTIVE_REQUESTS' = Add(API_ACTIVE_REQUESTS, endpoint, 1)
           /\ Set(r, [q EXCEPT !.pc = "api_handler", !.endpoint = endpoint,
                               !.ginc = @ + 1])
    /\ UNCHANGED <<REQUEST_TOTAL, REQUEST_DURATION>>
    /\ ApiFrame

\* the router and the endpoint behind call_next
ApiHandler(r) ==
    /\ rq[r].pc = "api_handler"
    /\ \E out \in IF rq[r].route = "none" THEN {Response(404)}
                  ELSE {Response(200)} \cup {Raised(e) : e \in Exceptions} :
         Set(r, [rq[r] EXCEPT !.pc = "api_after", !.scope_route = rq[r].route,
                              !.flow = out, !.handled = out])
    /\ UNCHANGED <<REQUEST_TOTAL, REQUEST_DURATION, API_ACTIVE_REQUESTS>>
    /\ ApiFrame

\* dispatch after call_next.  A response: the finally block decrements, then
\* REQUEST_TOTAL and REQUEST_DURATION are recorded and the response returned.
\* An exception: the except branch decrements and re-raises, the finally
\* block decrements again, and the statements after the try are not reached.
ApiAfter(r) ==
    /\ rq[r].pc = "api_after"
    /\ \E duration_ms \in MayMeasure :
         LET q == rq[r]
             decs == Decs(q.flow)
             recorded == q.flow.kind = "response"
             total == <<q.method, q.endpoint, Str(StatusCode(q.flow))>>
             duration == <<q.method, q.endpoint>>
         IN  /\ API_ACTIVE_REQUESTS' = Add(API_ACTIVE_REQUESTS, q.endpoint, 0 - decs)
             /\ REQUEST_TOTAL' = IF recorded THEN Inc(REQUEST_TOTAL, total)
                                 ELSE REQUEST_TOTAL
             /\ REQUEST_DURATION' =
                    IF recorded THEN Observe(REQUEST_DURATION, duration, duration_ms)
                    ELSE REQUEST_DURATION
             /\ Set(r, [q EXCEPT
                    !.pc = "done",
                    !.gdec = @ + decs,
                    !.counted = IF recorded THEN Append(@, total) ELSE @,
                    !.observed = IF recorded THEN Append(@, <<duration, duration_ms>>)
                                 ELSE @])
    /\ ApiFrame

ApiNext ==
    \/ \E r \in Reqs, k \in ApiRequestKinds : ApiEnter(r, k)
    \/ \E r \in Reqs : ApiHandler(r)
    \/ \E r \in Reqs : ApiAfter(r)

(***************************************************************************)
(* Instrumented functions and the GET /api/user/{user_id} endpoint of      *)
(* prometheus-functions/main.py.  A task runs one function at a time: the  *)
(* reset_outcome() at its top, the body after its sleep, and the except    *)
(* branch are steps between which other tasks may run.                     *)
(***************************************************************************)
\* random_num when the caller passes none (the default None)
NoNumber == 0
\* the values random.randint(1, 10) returns
RandomNumbers == 1..10
\* how the sleep of a body can end: normally, or, for an awaited sleep, with
\* the task's cancellation
Awaited == {"slept", "CancelledError"}
\* exception classes `except Exception` catches
ApplicationErrors == {"Exception"}
\* the result dict a function returns
ReturnedValue == [kind |-> "return", val |-> "dict"]

IdleInv == [pc |-> "idle", fn |-> "none", random_num |-> NoNumber,
            should_fail |-> FALSE, body |-> NoFlow, out |-> NoFlow,
            \* history: failed increments of this task before the function
            \* was entered, whether the task is a GET /api/user request,
            \* invocations made
            base |-> 0, request |-> FALSE, made |-> 0]

AppInit == inv = [t \in Tasks |-> IdleInv]

\* requests and invocations made so far by the tasks 1..n
RECURSIVE MadeUpTo(_)
MadeUpTo(n) == IF n = 0 THEN 0 ELSE inv[n].made + MadeUpTo(n - 1)
Made == MadeUpTo(MaxTasks)

\* the function has returned or raised: its locals are gone
Leave(q, body, out) ==
    [q EXCEPT !.pc = "done", !.random_num = NoNumber, !.should_fail = FALSE,
              !.body = body, !.out = out]

\* mutant: the except branch raises another exception
ReraiseWrapped(exc) == Raised("RuntimeError")
\* the bare `raise` of an except branch: the exception it caught
Reraise(exc) == Raised(exc)

\* a step that calls no tracker function
NoMark ==
    UNCHANGED <<outcomes_marked, set_objs, LLM_CALLS, call_result, calls,
                incs, isolated, hits, fresh>>

\* what the steps of main.py leave alone
AppFrame == UNCHANGED <<inject, steps, LLM_LATENCY, vmVars, httpVars, sideVars>>

\* the endpoint up to its call of fetch_user_data, run by the server in the
\* base context of a new request
get_user(t, n) ==
    /\ task_state[t] = "idle"
    /\ \A u \in Tasks : u < t => task_state[u] = "running"
    /\ Made < MaxCalls
    /\ task_state' = [task_state EXCEPT ![t] = "running"]
    /\ IF n % 2 = 0
         THEN \E fault \in MayFault : MarkBody(t, <<"fetch_user_data", "failed">>, fault)
         ELSE NoMark
    /\ inv' = [inv EXCEPT ![t] =
                 IF n % 5 = 0
                   THEN [Leave(@, NoFlow, Raised("Exception")) EXCEPT
                           !.fn = "get_user", !.request = TRUE, !.made = 1]
                   ELSE [@ EXCEPT !.pc = "enter", !.fn = "fetch_user_data",
                                  !.random_num = n, !.request = TRUE, !.made = 1]]
    /\ AppFrame

\* any other caller invokes an instrumented function from a running task:
\* the call and the reset_outcome() the function starts with
Invoke(t, fn, random_num, should_fail) ==
    /\ task_state[t] = "running"
    /\ ~inv[t].request
    /\ inv[t].pc \in {"idle", "done"}
    /\ Made < MaxCalls
    /\ ResetBody(t)
    /\ inv' = [inv EXCEPT ![t] =
                 [IdleInv EXCEPT !.pc = "body", !.fn = fn,
                                 !.random_num = random_num,
                                 !.should_fail = should_fail,
                                 !.base = hits[t][<<fn, "failed">>],
                                 !.made = inv[t].made + 1]]
    /\ UNCHANGED <<task_state, LLM_CALLS, hits>>
    /\ AppFrame

\* get_user's call of fetch_user_data(user_id, random_num=n) and the
\* reset_outcome() the function starts with
Enter(t) ==
    /\ inv[t].pc = "enter"
    /\ ResetBody(t)
    /\ inv' = [inv EXCEPT ![t] =
                 [@ EXCEPT !.pc = "body",
                           !.base = hits[t][<<inv[t].fn, "failed">>]]]
    /\ UNCHANGED <<task_state, LLM_CALLS, hits>>
    /\ AppFrame

\* the try body of fetch_user_data after time.sleep(1.5)
fetch_user_data(t) ==
    LET random_num == inv[t].random_num IN
    /\ inv[t].pc = "body"
    /\ inv[t].fn = "fetch_user_data"
    /\ IF random_num # NoNumber /\ random_num % 2 = 0
         THEN /\ \E fault \in MayFault :
                   MarkBody(t, <<"fetch_user_data", "failed">>, fault)
              /\ inv' = [inv EXCEPT ![t] = Leave(@, ReturnedValue, ReturnedValue)]
         ELSE IF random_num # NoNumber /\ random_num % 5 = 0
         THEN /\ NoMark
              /\ inv' = [inv EXCEPT ![t] =
                           [@ EXCEPT !.pc = "except", !.body = Raised("Exception")]]
         ELSE /\ \E fault \in MayFault :
                   MarkBody(t, <<"fetch_user_data", "success">>, fault)
              /\ inv' = [inv EXCEPT ![t] = Leave(@, ReturnedValue, ReturnedValue)]
    /\ UNCHANGED task_state
    /\ AppFrame

\* the try body of async_api_call after `await asyncio.sleep(0.8)`; a
\* CancelledError thrown in at the await is not an Exception and passes the
\* except branch by
async_api_call(t, awaited) ==
    /\ inv[t].pc = "body"
    /\ inv[t].fn = "async_api_call"
    /\ IF awaited = "CancelledError"
         THEN /\ NoMark
              /\ inv' = [inv EXCEPT ![t] =
                           Leave(@, Raised(awaited), Raised(awaited))]
         ELSE /\ \E fault \in MayFault :
                   MarkBody(t, <<"async_api_call",
                                 IF inv[t].should_fail THEN "failed" ELSE "success">>,
                            fault)
              /\ inv' = [inv EXCEPT ![t] = Leave(@, ReturnedValue, ReturnedValue)]
    /\ UNCHANGED task_state
    /\ AppFrame

\* `except Exception as e: mark_failure(<name>); raise`
ExceptBranch(t) ==
    /\ inv[t].pc = "except"
    /\ \E fault \in MayFault : MarkBody(t, <<inv[t].fn, "failed">>, fault)
    /\ inv' = [inv EXCEPT ![t] = Leave(@, inv[t].body, Reraise(inv[t].body.val))]
    /\ UNCHANGED task_state
    /\ AppFrame

AppNext ==
    \/ \E t \in Tasks : StartTask(t)
    \/ \E p, c \in Tasks : SpawnTask(p, c)
    \/ \E t \in Tasks, n \in RandomNumbers : get_user(t, n)
    \/ \E t \in Tasks, random_num \in {NoNumber} \cup RandomNumbers :
         Invoke(t, "fetch_user_data", random_num, FALSE)
    \/ \E t \in Tasks, should_fail \in BOOLEAN :
         Invoke(t, "async_api_call", NoNumber, should_fail)
    \/ \E t \in Tasks : Enter(t)
    \/ \E t \in Tasks : fetch_user_data(t)
    \/ \E t \in Tasks, awaited \in Awaited : async_api_call(t, awaited)
    \/ \E t \in Tasks : ExceptBranch(t)

(***************************************************************************)
(* metrics_middleware of monitor/app/main.py and the exposition app        *)
(* mounted at /metrics.  The statements before `await call_next(request)`, *)
(* the router and endpoint behind it, and the finally block are one step   *)
(* each.  A scraper that asks for /metrics is redirected to /metrics/ and   *)
(* follows the redirect.                                                   *)
(***************************************************************************)
\* requests to the monitor app: the static routes /hello and /error, the
\* mount point and paths below it, and a path nothing matches
MonitorRequestKinds ==
    { [method |-> "GET", path |-> "/hello", route |-> "/hello"],
      [method |-> "GET", path |-> "/error", route |-> "/error"],
      [method |-> "GET", path |-> "/metrics", route |-> "none"],
      [method |-> "GET", path |-> "/metrics/", route |-> "/metrics"],
      [method |-> "GET", path |-> "/metrics/a", route |-> "/metrics"],
      [method |-> "GET", path |-> "/missing", route |-> "none"] }

\* the path templates of the routes and of the mount
MonitorRouteTemplates == {k.route : k \in MonitorRequestKinds} \ {"none"}

MonInit ==
    /\ request_counter = <<>>
    /\ request_duration = <<>>
    /\ scrape = <<>>

\* the endpoint attribute of both instruments: request.url.path
MonitorEndpoint(q) == q.path

\* what call_next produces.  The mount serves every path below /metrics with
\* the exposition; the router answers /metrics itself, which the mount does
\* not match, with a redirect to /metrics/; error() re-raises its ValueError.
MonitorOutcome(q) ==
    CASE q.route = "/hello" -> Response(200)
      [] q.route = "/error" -> Raised("ValueError")
      [] q.route = "/metrics" -> Response(200)
      [] q.path = "/metrics" -> Response(307)
      [] OTHER -> Response(404)

MonFrame ==
    UNCHANGED <<inject, steps, trackerVars, vmVars, installed, variant, appVars,
                REQUEST_TOTAL, REQUEST_DURATION, ACTIVE_REQUESTS,
                API_ACTIVE_REQUESTS, regVars, histVars, loopVars>>

\* metrics_middleware up to call_next: start_time, status_code = 500
MonEnter(r, k) ==
    /\ rq[r].pc = "idle"
    /\ \A u \in Reqs : u < r => rq[u].pc # "idle"
    /\ Set(r, [rq[r] EXCEPT !.pc = "mon_call", !.method = k.method,
                            !.path = k.path, !.route = k.route])
    /\ UNCHANGED monVars
    /\ MonFrame

\* the router and what it dispatches to; the mounted app generates the
\* exposition of the registry before it starts its response
MonCallNext(r) ==
    /\ rq[r].pc = "mon_call"
    /\ LET q == rq[r]
           out == MonitorOutcome(q)
           others == {u \in Reqs \ {r} : rq[u].pc # "idle"}
       IN  /\ Set(r, [q EXCEPT !.pc = "mon_finally", !.scope_route = q.route,
                               !.flow = out, !.handled = out])
           /\ scrape' =
                IF q.route = "/metrics"
                  THEN (r :> [output |-> request_counter,
                              others |-> Cardinality(others),
                              hellos |-> Cardinality({u \in others :
                                            /\ rq[u].path = "/hello"
                                            /\ rq[u].pc = "done"})])
                       @@ scrape
                  ELSE scrape
    /\ UNCHANGED <<request_counter, request_duration>>
    /\ MonFrame

\* the finally block: request_counter.add and request_duration.record with
\* the raw path as endpoint, then the response is returned or the exception
\* re-raised; a client that received the redirect will follow it
MonFinally(r) ==
    /\ rq[r].pc = "mon_finally"
    /\ \E duration \in MayMeasure :
         LET q == rq[r]
             labels == <<q.method, MonitorEndpoint(q), Str(StatusCode(q.flow))>>
         IN  /\ request_counter' = Inc(request_counter, labels)
             /\ request_duration' = Observe(request_duration, labels, duration)
             /\ Set(r, [q EXCEPT
                    !.pc = IF q.flow = Response(307) THEN "mon_redirected" ELSE "done",
                    !.endpoint = MonitorEndpoint(q),
                    !.counted = Append(@, labels),
                    !.observed = Append(@, <<labels, duration>>)])
    /\ UNCHANGED scrape
    /\ MonFrame

\* the scraper follows the redirect: a second request, to /metrics/
MonFollow(r) ==
    /\ rq[r].pc = "mon_redirected"
    /\ Set(r, [rq[r] EXCEPT !.pc = "mon_call", !.path = "/metrics/",
                            !.route = "/metrics", !.flow = NoFlow])
    /\ UNCHANGED monVars
    /\ MonFrame

MonNext ==
    \/ \E r \in Reqs, k \in MonitorRequestKinds : MonEnter(r, k)
    \/ \E r \in Reqs : MonCallNext(r)
    \/ \E r \in Reqs : MonFinally(r)
    \/ \E r \in Reqs : MonFollow(r)

(***************************************************************************)
(* Registries of vm_agents: main.py and metrics.py each create a           *)
(* CollectorRegistry at import and register a counter vm_agent_calls_total *)
(* in it; every script.py instance creates a registry of its own with a    *)
(* counter script_operations_total and a histogram.  One iteration of      *)
(* run_worker's loop is one step.                                          *)
(***************************************************************************)
Workers == 1..MaxWorkers
\* --instance-id: two instances may be started with the same id
InstanceIds == {1, 2}
\* f"op_{random.randint(1, 3)}"
OperationNames == {"op_1", "op_2", "op_3"}
Results == {"success", "failure"}
\* op_duration, in tenths of a second
OperationDurations == {3}
\* f"script_{instance_id}"
InstanceLabel(instance_id) == IF instance_id = 1 THEN "script_1" ELSE "script_2"

\* the registry objects: REGISTRY of main.py, REGISTRY of metrics.py, and
\* the one instance w of the script creates
MainRegistry == 1
MetricsRegistry == 2
PodRegistries == {MainRegistry, MetricsRegistry}
\* mutant: the script's metrics go to one registry shared by all instances
SharedRegistry(w) == 3
\* registry = CollectorRegistry()
NewRegistry(w) == 2 + w
RegistryIds == PodRegistries \cup {NewRegistry(w) : w \in Workers}

\* what a scrape of a registry collects
Collect(registry) == registries[registry]

NotStarted == [pc |-> "new", registry |-> 0, instance_id |-> 0, operation_count |-> 0]

RegInit ==
    /\ registries = [g \in RegistryIds |->
                        IF g \in PodRegistries
                          THEN ("vm_agent_calls_total" :> <<>>)
                          ELSE <<>>]
    /\ worker = [w \in Workers |-> NotStarted]
    /\ script = <<>>
    /\ day2 = <<>>

\* operations run so far by all instances, marks made by both pods
Operations ==
    LET RECURSIVE Sum(_)
        Sum(S) == IF S = {} THEN 0
                  ELSE LET x == CHOOSE x \in S : TRUE
                       IN  worker[x].operation_count + Sum(S \ {x})
        Marks(g) == Value(registries[g]["vm_agent_calls_total"], <<"success">>)
                    + Value(registries[g]["vm_agent_calls_total"], <<"failure">>)
    IN  Sum(Workers) + Marks(MainRegistry) + Marks(MetricsRegistry)

\* what the scripts leave alone
RegFrameRest ==
    UNCHANGED <<inject, steps, trackerVars, vmVars, httpVars, appVars, monVars,
                histVars, loopVars>>

RegFrame ==
    UNCHANGED <<inject, steps, trackerVars, vmVars, httpVars, appVars, monVars,
                histVars, loopVars, script, day2>>

\* run_worker up to its loop: create_isolated_registry registers the counter
\* and the histogram in a new registry
create_isolated_registry(w, instance_id) ==
    /\ worker[w].pc = "new"
    /\ \A u \in Workers : u < w => worker[u].pc # "new"
    /\ LET registry == NewRegistry(w)
       IN  /\ registries' = [registries EXCEPT ![registry] =
                  ("script_operations_total" :> <<>>
                   @@ "script_operation_duration_seconds" :> <<>>)]
           /\ worker' = [worker EXCEPT ![w] =
                  [pc |-> "running", registry |-> registry,
                   instance_id |-> instance_id, operation_count |-> 0]]
    /\ RegFrame

\* one iteration of the loop: counter.labels(...).inc() and
\* histogram.labels(...).observe(op_duration) on the instance's own metrics
run_worker(w, op_name, result, op_duration) ==
    /\ worker[w].pc = "running"
    /\ Operations < MaxOperations
    /\ LET registry == worker[w].registry
           instance == InstanceLabel(worker[w].instance_id)
       IN  registries' = [registries EXCEPT
               ![registry]["script_operations_total"] =
                   Inc(@, <<instance, op_name, result>>),
               ![registry]["script_operation_duration_seconds"] =
                   Observe(@, <<instance, op_name>>, op_duration)]
    /\ worker' = [worker EXCEPT ![w].operation_count = @ + 1]
    /\ RegFrame

\* the loop ends after max_operations iterations, whatever the caller
\* passed for max_operations
worker_exit(w) ==
    /\ worker[w].pc = "running"
    /\ worker' = [worker EXCEPT ![w].pc = "exited"]
    /\ UNCHANGED registries
    /\ RegFrame

\* mark_success / mark_failure of main.py (pod = MainRegistry) or of
\* metrics.py (pod = MetricsRegistry): POD_CALLS.labels(status=...).inc()
pod_mark(pod, status) ==
    /\ Operations < MaxOperations
    /\ registries' = [registries EXCEPT
           ![pod]["vm_agent_calls_total"] = Inc(@, <<status>>)]
    /\ UNCHANGED worker
    /\ RegFrame

RegNext ==
    \/ \E w \in Workers, instance_id \in InstanceIds :
         create_isolated_registry(w, instance_id)
    \/ \E w \in Workers, op_name \in OperationNames, result \in Results,
          op_duration \in OperationDurations :
         run_worker(w, op_name, result, op_duration)
    \/ \E w \in Workers : worker_exit(w)
    \/ \E pod \in PodRegistries, status \in Results : pod_mark(pod, status)

(***************************************************************************)
(* One series of REQUEST_DURATION as prometheus_client keeps it: observe   *)
(* adds the value to the sum and increments the first bucket whose upper   *)
(* bound is not below the value; a collect reports each bucket cumulated   *)
(* over the buckets up to it, the last one being +Inf, and the count.      *)
(***************************************************************************)
\* buckets=(10, 50, 100, 250, 500, 1000, 2500, 5000, 10000)
Buckets == <<10, 50, 100, 250, 500, 1000, 2500, 5000, 10000>>
\* the index of the +Inf bucket, which the library appends
Inf == Len(Buckets) + 1
BucketIndexes == 1..Inf
\* duration_ms values a request may measure, on and around bucket bounds
ObservedDurationsMs == {5, 10, 11, 250, 251, 10000, 10001}

\* amount <= bound
WithinBound(amount, i) == i = Inf \/ amount <= Buckets[i]

\* mutant: the bound itself falls into the next bucket
BucketOfStrict(amount) ==
    CHOOSE i \in BucketIndexes :
        /\ (i = Inf \/ amount < Buckets[i])
        /\ \A j \in 1..(i - 1) : ~(amount < Buckets[j])
\* the bucket observe increments: the first whose bound is not below amount
BucketOf(amount) ==
    CHOOSE i \in BucketIndexes :
        /\ WithinBound(amount, i)
        /\ \A j \in 1..(i - 1) : ~WithinBound(amount, j)

HistInit ==
    histogram = [buckets |-> [i \in BucketIndexes |-> 0], sum |-> 0]

\* the observations made so far
Observations ==
    LET RECURSIVE Upto(_)
        Upto(i) == IF i = 0 THEN 0 ELSE histogram.buckets[i] + Upto(i - 1)
    IN  Upto(Inf)

\* collect: the cumulative count of bucket i of a histogram value
Cumulative(h, i) ==
    LET RECURSIVE Upto(_)
        Upto(j) == IF j = 0 THEN 0 ELSE h.buckets[j] + Upto(j - 1)
    IN  Upto(i)
\* collect: the _count sample
Count(h) == Cumulative(h, Inf)

HistFrame ==
    UNCHANGED <<inject, steps, trackerVars, vmVars, httpVars, appVars, monVars,
                regVars, loopVars>>

\* REQUEST_DURATION.labels(...).observe(duration_ms)
observe(duration_ms) ==
    /\ Observations < MaxObservations
    /\ histogram' = [histogram EXCEPT
           !.buckets[BucketOf(duration_ms)] = @ + 1,
           !.sum = @ + duration_ms]
    /\ HistFrame

HistNext == \E duration_ms \in ObservedDurationsMs : observe(duration_ms)

(***************************************************************************)
(* The event loop of prometheus-functions/main.py: the POST                *)
(* /api/user-profile/{user_id} endpoint, a coroutine that calls the five   *)
(* instrumented functions in turn, and the background task that pushes to  *)
(* the Pushgateway.  One task occupies the loop at a time and gives it up   *)
(* only at an await; a statement is one step of the task that occupies the *)
(* loop.                                                                   *)
(***************************************************************************)
\* mutant: process_analytics is not called
ProfileCallsWithoutAnalytics ==
    <<"fetch_user_data", "fetch_posts", "validate_data", "send_notification">>
\* the calls of get_user_profile, in order
ProfileCalls ==
    <<"fetch_user_data", "fetch_posts", "validate_data", "process_analytics",
      "send_notification">>
\* the instrumented functions main.py defines for the endpoint
ProfileFunctions ==
    {"fetch_user_data", "fetch_posts", "process_analytics", "validate_data",
     "send_notification"}
ProfileKeys == ProfileFunctions \X Statuses
\* the function whose try body awaits asyncio.sleep; the others call time.sleep
AsyncFunctions == {"validate_data"}

\* the event loop runs no task
NoTask == 0
\* the task created by startup_event
PushTask == MaxTasks + 1

\* the step of get_user_profile after the call at position i returned
AfterCall(q, i) ==
    IF i < Len(ProfileCalls)
      THEN [q EXCEPT !.pc = "p_call", !.fn = ProfileCalls[i + 1]]
      ELSE [q EXCEPT !.pc = "done", !.body = ReturnedValue, !.out = ReturnedValue]
\* the position of a function among the calls
Position(fn) == CHOOSE i \in DOMAIN ProfileCalls : ProfileCalls[i] = fn

ProfileFrame ==
    UNCHANGED <<inject, steps, LLM_LATENCY, vmVars, httpVars, monVars, regVars,
                histVars, push>>

\* the server starts the endpoint's coroutine for a new request, in a copy
\* of the base context
get_user_profile(t) ==
    /\ running = NoTask
    /\ task_state[t] = "idle"
    /\ \A u \in Tasks : u < t => task_state[u] = "running"
    /\ Made < MaxCalls
    /\ task_state' = [task_state EXCEPT ![t] = "running"]
    /\ inv' = [inv EXCEPT ![t] =
                 [IdleInv EXCEPT !.pc = "p_call", !.fn = ProfileCalls[1],
                                 !.made = 1]]
    /\ running' = t
    /\ NoMark
    /\ ProfileFrame

\* the call of the next function and the reset_outcome() it starts with;
\* validate_data then awaits its sleep and gives up the loop
ProfileEnter(t) ==
    /\ running = t
    /\ inv[t].pc = "p_call"
    /\ ResetBody(t)
    /\ inv' = [inv EXCEPT ![t].pc =
                 IF inv[t].fn \in AsyncFunctions THEN "p_await" ELSE "p_body"]
    /\ running' = IF inv[t].fn \in AsyncFunctions THEN NoTask ELSE t
    /\ UNCHANGED <<task_state, LLM_CALLS, hits>>
    /\ ProfileFrame

\* the try body of a synchronous function after its time.sleep:
\* mark_success(<name>) and return
ProfileBody(t) ==
    /\ running = t
    /\ inv[t].pc = "p_body"
    /\ \E fault \in MayFault : MarkBody(t, <<inv[t].fn, "success">>, fault)
    /\ inv' = [inv EXCEPT ![t] = AfterCall(@, Position(inv[t].fn))]
    /\ running' = IF Position(inv[t].fn) < Len(ProfileCalls) THEN t ELSE NoTask
    /\ UNCHANGED task_state
    /\ ProfileFrame

\* the loop resumes validate_data after `await asyncio.sleep(0.5)`:
\* mark_success and return, or a CancelledError thrown in at the await, which
\* `except Exception` does not catch, ends the request
ProfileResume(t, awaited) ==
    /\ running = NoTask
    /\ inv[t].pc = "p_await"
    /\ IF awaited = "CancelledError"
         THEN /\ NoMark
              /\ inv' = [inv EXCEPT ![t] =
                           [@ EXCEPT !.pc = "done", !.body = Raised(awaited),
                                     !.out = Raised(awaited)]]
              /\ running' = NoTask
         ELSE /\ \E fault \in MayFault : MarkBody(t, <<inv[t].fn, "success">>, fault)
              /\ inv' = [inv EXCEPT ![t] = AfterCall(@, Position(inv[t].fn))]
              /\ running' = t
    /\ UNCHANGED task_state
    /\ ProfileFrame

ProfileNext ==
    \/ \E t \in Tasks : get_user_profile(t)
    \/ \E t \in Tasks : ProfileEnter(t)
    \/ \E t \in Tasks : ProfileBody(t)
    \/ \E t \in Tasks, awaited \in Awaited : ProfileResume(t, awaited)

\* push_task = None
NoPushTask ==
    [pc |-> "none", cancel |-> FALSE, delivered |-> FALSE, shutdown |-> FALSE,
     \* history: the sleeps that ended, the pushes that started and the
     \* lines logged after them
     trace |-> <<>>]

LoopInit == push = NoPushTask /\ running = NoTask

\* how a push_to_gateway call can end
PushOutcomes == {"ok", "raised"}
\* push_to_gateway calls started
Attempts == Cardinality({i \in DOMAIN push.trace : push.trace[i] = "push"})

\* mutant: a failed push is retried at once
RetryAtOnce(outcome) == IF outcome = "ok" THEN "sleeping" ELSE "slept"
\* after logger.info, and after `except Exception as e: logger.error(...);
\* pass`, the loop goes round to `await asyncio.sleep(PUSH_INTERVAL)`
AfterPush(outcome) == "sleeping"

\* mutant: the except branch catches the cancellation and the loop goes on
CancellationCaught == "sleeping"
\* CancelledError raised at `await asyncio.sleep(PUSH_INTERVAL)` is not an
\* Exception: it passes `except Exception` by and ends the coroutine
CancellationPropagates == "cancelled"

LoopFrame ==
    UNCHANGED <<inject, steps, trackerVars, vmVars, httpVars, appVars, monVars,
                regVars, histVars>>

\* push_task = asyncio.create_task(push_metrics_to_gateway()); the task runs
\* up to its first await
startup_event ==
    /\ running = NoTask
    /\ push.pc = "none"
    /\ ~push.shutdown
    /\ push' = [push EXCEPT !.pc = "sleeping"]
    /\ UNCHANGED running
    /\ LoopFrame

\* await asyncio.sleep(PUSH_INTERVAL) ends and the loop resumes the task
SleepDone ==
    /\ running = NoTask
    /\ push.pc = "sleeping"
    /\ ~push.cancel
    /\ Attempts < MaxPushes
    /\ push' = [push EXCEPT !.pc = "slept", !.trace = Append(@, "sleep")]
    /\ running' = PushTask
    /\ LoopFrame

\* the task calls push_to_gateway(...), a synchronous call: the task keeps
\* the loop until the call ends
PushBegin ==
    /\ running = PushTask
    /\ push.pc = "slept"
    /\ Attempts < MaxPushes
    /\ push' = [push EXCEPT !.pc = "pushing", !.trace = Append(@, "push")]
    /\ UNCHANGED running
    /\ LoopFrame

\* push_to_gateway returns (logger.info) or raises (logger.error), and the
\* loop goes round
PushEnd(outcome) ==
    /\ running = PushTask
    /\ push.pc = "pushing"
    /\ push' = [push EXCEPT
           !.pc = AfterPush(outcome),
           !.trace = Append(@, IF outcome = "ok" THEN "info" ELSE "error")]
    /\ running' = IF AfterPush(outcome) = "sleeping" THEN NoTask ELSE PushTask
    /\ LoopFrame

\* `if push_task: push_task.cancel()`, run by the loop
shutdown_event ==
    /\ running = NoTask
    /\ ~push.shutdown
    /\ push' = [push EXCEPT !.shutdown = TRUE,
                            !.cancel = push.pc \in {"sleeping"}]
    /\ UNCHANGED running
    /\ LoopFrame

\* the loop throws CancelledError into the task at the await it is
\* suspended at
DeliverCancel ==
    /\ running = NoTask
    /\ push.pc = "sleeping"
    /\ push.cancel
    /\ push' = [push EXCEPT !.pc = CancellationPropagates, !.cancel = FALSE,
                            !.delivered = TRUE]
    /\ UNCHANGED running
    /\ LoopFrame

PushNext ==
    \/ startup_event
    \/ SleepDone
    \/ PushBegin
    \/ \E outcome \in PushOutcomes : PushEnd(outcome)
    \/ shutdown_event
    \/ DeliverCancel

\* the server: requests on the loop next to the push task
ServerNext == ProfileNext \/ PushNext

\* a process that has imported neither vm_agents' scripts nor a bucketed
\* series: the prometheus-functions, vm-agents and monitor applications
NoScript == script = <<>> /\ day2 = <<>>
NoRegistries == registries = <<>> /\ worker = <<>> /\ NoScript
NoHistogram == histogram = <<>>

(***************************************************************************)
(* One run_worker call of vm_agents/script.py, statement by statement.     *)
(***************************************************************************)
\* the values --operations is given
MaxOperationsArgs == 0..MaxOperations
\* passes through the loop body a behaviour follows
MaxIterations == MaxOperations + 1

\* before run_worker is called
ScriptInit ==
    script = [pc |-> "new", max_operations |-> 0, operation_count |-> 0,
              iterations |-> 0, counter |-> <<>>, histogram |-> <<>>,
              op_name |-> "none"]

ScriptFrame ==
    UNCHANGED <<inject, steps, trackerVars, vmVars, httpVars, appVars, monVars,
                histVars, loopVars, registries, worker, day2>>

\* run_worker up to the loop: the counter and the histogram of a new
\* registry, operation_count = 0
WorkerStart(max_operations) ==
    /\ script.pc = "new"
    /\ script' = [script EXCEPT !.pc = "while", !.max_operations = max_operations]
    /\ ScriptFrame

\* `while operation_count < max_operations:` the body is entered or the
\* function returns
WorkerWhile ==
    /\ script.pc = "while"
    /\ script.iterations < MaxIterations
    /\ script' = IF script.operation_count < script.max_operations
                   THEN [script EXCEPT !.pc = "counter", !.iterations = @ + 1]
                   ELSE [script EXCEPT !.pc = "exited"]
    /\ ScriptFrame

\* counter.labels(instance_id, operation, result).inc(); when it raises the
\* except branch logs and the loop tests its condition again
WorkerCounter(op_name, result) ==
    /\ script.pc = "counter"
    /\ \E fault \in MayFault :
         script' = IF fault = "ok"
                     THEN [script EXCEPT !.pc = "histogram", !.op_name = op_name,
                                         !.counter = Inc(@, <<op_name, result>>)]
                     ELSE [script EXCEPT !.pc = "while"]
    /\ ScriptFrame

\* histogram.labels(instance_id, operation).observe(op_duration), then
\* operation_count += 1; when observe raises the increment of
\* operation_count is skipped
WorkerHistogram(op_duration) ==
    /\ script.pc = "histogram"
    /\ \E fault \in MayFault :
         script' = IF fault = "ok"
                     THEN [script EXCEPT !.pc = "while", !.op_name = "none",
                                         !.histogram = Observe(@, script.op_name, op_duration),
                                         !.operation_count = @ + 1]
                     ELSE [script EXCEPT !.pc = "while", !.op_name = "none"]
    /\ ScriptFrame

ScriptNext ==
    \/ \E max_operations \in MaxOperationsArgs : WorkerStart(max_operations)
    \/ WorkerWhile
    \/ \E op_name \in OperationNames, result \in Results : WorkerCounter(op_name, result)
    \/ \E op_duration \in OperationDurations : WorkerHistogram(op_duration)

\* sum of script_operations_total over all label tuples
RECURSIVE CounterSum(_, _)
CounterSum(metric, among) ==
    IF among = {} THEN 0
    ELSE LET L == CHOOSE x \in among : TRUE
         IN  metric[L] + CounterSum(metric, among \ {L})
\* observations of script_operation_duration_seconds over all label tuples
RECURSIVE ObservationCount(_, _)
ObservationCount(metric, among) ==
    IF among = {} THEN 0
    ELSE LET L == CHOOSE x \in among : TRUE
         IN  metric[L].count + ObservationCount(metric, among \ {L})

(***************************************************************************)
(* day2/main.py: the buckets of bucket.json over 50 GB are queued and      *)
(* their names printed.                                                    *)
(***************************************************************************)
\* `if bucket["sizeGB"] > 50`
SizeThresholdGB == 50
BucketNames == {"logs", "media"}
BucketSizesGB == {50, 51}
\* the elements data["buckets"] may have
BucketValues == [name : BucketNames, sizeGB : BucketSizesGB]
\* the lists data["buckets"] may be
RECURSIVE ListsUpTo(_)
ListsUpTo(n) ==
    IF n = 0 THEN {<<>>}
    ELSE LET shorter == ListsUpTo(n - 1)
         IN  shorter \cup {Append(l, b) : l \in {x \in shorter : Len(x) = n - 1},
                                          b \in BucketValues}
BucketLists == ListsUpTo(MaxBuckets)

\* the attributes a dict, which json.load returns for a JSON object, has
DictAttributes == {"clear", "copy", "fromkeys", "get", "items", "keys", "pop",
                   "popitem", "setdefault", "update", "values"}
\* mutant: the loop body ends with the queueing
AttributeLookupSucceeds(attribute) == NoFlow
\* data.<attribute>: AttributeError for a name dict does not have
AttributeLookup(attribute) ==
    IF attribute \in DictAttributes THEN NoFlow ELSE Raised("AttributeError")

\* "Buckets to be deleted are the"
Header == "Buckets to be deleted are the"

\* after json.load, with q = Queue() empty
Day2Over(buckets) ==
    day2 = [pc |-> "for", data |-> buckets, index |-> 1, q |-> <<>>,
            printed |-> <<>>, out |-> NoFlow]

\* one pass of `for bucket in data["buckets"]`: the bucket is put in the
\* queue when its sizeGB is over 50, then `today = data.NOW()` is evaluated
ForBucket ==
    /\ day2.pc = "for"
    /\ day2.index <= Len(day2.data)
    /\ LET bucket == day2.data[day2.index]
           queued == IF bucket.sizeGB > SizeThresholdGB THEN Append(day2.q, bucket)
                     ELSE day2.q
           now == AttributeLookup("NOW")
       IN  day2' = IF now.kind = "exc"
                     THEN [day2 EXCEPT !.pc = "raised", !.q = queued, !.out = now]
                     ELSE [day2 EXCEPT !.index = @ + 1, !.q = queued]
    /\ UNCHANGED <<registries, worker, script>>
    /\ RegFrameRest

\* the for loop is exhausted: print("Buckets to be deleted are the")
ForDone ==
    /\ day2.pc = "for"
    /\ day2.index > Len(day2.data)
    /\ day2' = [day2 EXCEPT !.pc = "while", !.printed = Append(@, Header)]
    /\ UNCHANGED <<registries, worker, script>>
    /\ RegFrameRest

\* `while not q.empty(): item = q.get(); print(item["name"])`, one test of
\* the condition and, when it holds, one pass
WhileQueue ==
    /\ day2.pc = "while"
    /\ day2' = IF day2.q # <<>>
                 THEN [day2 EXCEPT !.q = Tail(@), !.printed = Append(@, Head(day2.q).name)]
                 ELSE [day2 EXCEPT !.pc = "exited"]
    /\ UNCHANGED <<registries, worker, script>>
    /\ RegFrameRest

Day2Next == ForBucket \/ ForDone \/ WhileQueue

\* the names of the buckets of a list whose sizeGB is over 50, in the
\* order of the list
RECURSIVE NamesOver(_)
NamesOver(buckets) ==
    IF buckets = <<>> THEN <<>>
    ELSE IF Head(buckets).sizeGB > SizeThresholdGB
    THEN <<Head(buckets).name>> \o NamesOver(Tail(buckets))
    ELSE NamesOver(Tail(buckets))

(***************************************************************************)
(* Specifications.                                                         *)
(***************************************************************************)
Imported == TrackerInit /\ VmInit /\ HttpInit /\ AppInit /\ MonInit

Idle == Imported /\ NoRegistries /\ NoHistogram /\ LoopInit

\* the instruments of prometheus_client do not raise for the label names and
\* values this code passes
InitNoFault == inject = FALSE /\ variant = "pf" /\ Idle

\* instrument calls may raise
InitFault == inject = TRUE /\ variant = "pf" /\ Idle

\* either package's middlewares, instruments that do not raise
InitEither == inject = FALSE /\ variant \in {"pf", "vm"} /\ Idle

\* the vm-agents middlewares with instrument calls that may raise
InitVmFault == inject = TRUE /\ variant = "vm" /\ Idle

\* the tracker with the instruments of prometheus_client, which do not raise
\* for the label names and values outcomes.py passes
SpecTracker == InitNoFault /\ [][TrackerNext]_vars

\* the vm-agents outcome helpers with instruments that do not raise
SpecVm == InitNoFault /\ [][VmNext]_vars

\* both trackers with instrument calls that may raise
TrackerFaultNext == TrackerNext \/ VmNext

SpecTrackerFault == InitFault /\ [][TrackerFaultNext]_vars

\* the prometheus-functions tracker alone with instrument calls that may
\* raise
SpecTrackerRaises == InitFault /\ [][TrackerNext]_vars

\* the prometheus-functions chain under concurrent requests
SpecHttp == InitNoFault /\ [][HttpNext]_vars

\* the chain of either package
SpecHttpEither == InitEither /\ [][HttpNext]_vars

\* the prometheus-functions chain with recording calls that may raise
SpecHttpFault == InitFault /\ [][HttpNext]_vars

\* the vm-agents chain with recording calls that may raise
SpecHttpVmFault == InitVmFault /\ [][HttpNext]_vars

\* the chain of either package with cancellation
SpecHttpCancel == InitEither /\ [][HttpCancelNext]_vars

\* PrometheusMiddleware of vm_agents/api.py under concurrent requests
SpecApi == InitNoFault /\ [][ApiNext]_vars

\* main.py's functions and endpoint, instrument calls never raising
SpecApp == InitNoFault /\ [][AppNext]_vars

\* the monitor app under concurrent requests and scrapes
SpecMonitor == InitNoFault /\ [][MonNext]_vars

\* the prometheus-functions application with any subset of the three
\* middlewares added
InitComposed ==
    /\ inject = FALSE /\ variant = "pf"
    /\ \E added \in SUBSET Middlewares : HttpOver(added)
    /\ TrackerInit /\ VmInit /\ AppInit /\ MonInit
    /\ NoRegistries /\ NoHistogram /\ LoopInit

\* the chain of whichever middlewares are installed
SpecComposed == InitComposed /\ [][HttpNext]_vars

\* the server of prometheus-functions/main.py, whose functions pass the
\* five names of ProfileCalls to the tracker
InitServer ==
    /\ inject = FALSE /\ variant = "pf"
    /\ TrackerOver(ProfileKeys) /\ VmInit /\ HttpInit /\ AppInit /\ MonInit
    /\ NoRegistries /\ NoHistogram /\ LoopInit

\* POST /api/user-profile requests on the event loop next to the push task
SpecPush == InitServer /\ [][ServerNext]_vars

\* a series of REQUEST_DURATION with its buckets, nothing observed yet
InitHistogram ==
    /\ inject = FALSE /\ variant = "pf"
    /\ Imported /\ NoRegistries /\ HistInit /\ LoopInit

\* observations on one series of REQUEST_DURATION
SpecHistogram == InitHistogram /\ [][HistNext]_vars

\* main.py and metrics.py of vm_agents imported, no script instance started
InitRegistries ==
    /\ inject = FALSE /\ variant = "pf"
    /\ Imported /\ RegInit /\ NoHistogram /\ LoopInit

\* one script instance, with metrics that do not raise for the labels the
\* script passes
InitScript ==
    /\ inject = FALSE /\ variant = "pf"
    /\ Imported /\ registries = <<>> /\ worker = <<>> /\ ScriptInit /\ day2 = <<>>
    /\ NoHistogram /\ LoopInit

SpecScript == InitScript /\ [][ScriptNext]_vars

\* one script instance whose recording calls may raise
InitScriptFault ==
    /\ inject = TRUE /\ variant = "pf"
    /\ Imported /\ registries = <<>> /\ worker = <<>> /\ ScriptInit /\ day2 = <<>>
    /\ NoHistogram /\ LoopInit

SpecScriptFault == InitScriptFault /\ [][ScriptNext]_vars

\* a run of day2/main.py on any bucket.json
InitDay2 ==
    /\ inject = FALSE /\ variant = "pf"
    /\ Imported /\ registries = <<>> /\ worker = <<>> /\ script = <<>>
    /\ \E buckets \in BucketLists : Day2Over(buckets)
    /\ NoHistogram /\ LoopInit

SpecDay2 == InitDay2 /\ [][Day2Next]_vars

\* the pods and script instances of vm_agents, each with its registry
SpecRegistries == InitRegistries /\ [][RegNext]_vars

(***************************************************************************)
(* Claims about the outcome tracker.                                       *)
(***************************************************************************)
Objs == 1..Len(set_objs)

RECURSIVE SumIncs(_, _)
\* increments made for key k through the set objects 1..n
SumIncs(k, n) == IF n = 0 THEN 0 ELSE incs[n][k] + SumIncs(k, n - 1)

\* C1: the mark_success / mark_failure calls for one (function, outcome) that
\* run against the same tracked set (one context, no reset_outcome() between
\* them), however many they are, increment llm_calls_total{function,status}
\* exactly once in total, and the counter holds exactly these increments.
C1_MarkedOncePerContext ==
    /\ \A o \in Objs, k \in Keys : calls[o][k] >= 1 => incs[o][k] = 1
    /\ \A k \in Keys : LLM_CALLS[k] = SumIncs(k, Len(set_objs))

\* C1 witness: one tracked set has seen the same mark three times and one
\* increment
C1_Witness ==
    \E o \in Objs, k \in Keys : calls[o][k] >= 3 /\ incs[o][k] = 1

\* C2: reset_outcome() leaves the calling context with an empty tracked set
\* that no other context refers to, and the mark that follows it increments
\* the counter whatever was recorded before the reset; so mark_success(f);
\* reset_outcome(); mark_success(f) increments twice.
C2_ResetClears ==
    [][\A t \in Tasks :
         /\ reset_outcome(t) =>
              /\ Tracked(t)' = {}
              /\ \A u \in Tasks \ {t} : outcomes_marked'[u] # outcomes_marked'[t]
         /\ \A fn \in FunctionNames :
              /\ (fresh[t] /\ mark_success(t, fn)) =>
                   LLM_CALLS'[<<fn, "success">>] = LLM_CALLS[<<fn, "success">>] + 1
              /\ (fresh[t] /\ mark_failure(t, fn)) =>
                   LLM_CALLS'[<<fn, "failed">>] = LLM_CALLS[<<fn, "failed">>] + 1
      ]_vars

\* C2 witness: one task's own mark_success calls for one function have
\* incremented the counter twice, which takes a reset_outcome() between them
C2_Witness ==
    \E t \in Tasks, fn \in FunctionNames :
        /\ hits[t][<<fn, "success">>] = 2
        /\ LLM_CALLS[<<fn, "success">>] = 2

\* C4: the tracked set of every running unit of work holds exactly what the
\* unit started with and has marked itself since its last reset_outcome():
\* no other unit has added to it, and no other unit's mark can suppress its
\* marks.
C4_TrackedSetsIsolated ==
    \A t \in Tasks : task_state[t] = "running" => Tracked(t) = isolated[t]

\* C8: no call of mark_success, mark_failure, mark_latency or reset_outcome,
\* of either package, ends by raising to its caller.
C8_NeverRaises ==
    /\ call_result.ended # "raised"
    /\ vm_call_result.ended # "raised"

\* C8 witness: calls of both packages met a failing instrument and returned
C8_Witness ==
    /\ call_result.fault # "ok" /\ call_result.ended = "returned"
    /\ vm_call_result.fault # "ok" /\ vm_call_result.ended = "returned"

(***************************************************************************)
(* Claims about the middleware chain.                                      *)
(***************************************************************************)
\* requests between GaugeMiddleware's increment and its decrement
InFlight == {r \in Reqs : rq[r].pc \in {"handler", "gauge_finally"}}

\* C5: under every interleaving of requests whose handlers return or raise,
\* http_requests_active{endpoint="all"} is never negative, equals the number
\* of requests between the gauge middleware's increment and decrement, and
\* is back at its initial value when no started request is unfinished.
C5_GaugeCountsInFlight ==
    /\ ACTIVE_REQUESTS >= 0
    /\ ACTIVE_REQUESTS = Cardinality(InFlight)
    /\ (\A r \in Reqs : rq[r].pc \in {"idle", "done"}) => ACTIVE_REQUESTS = 0

\* C5 witness: every request has finished, one by a response and one by an
\* exception of its handler, and the gauge is back at 0
C5_Witness ==
    /\ \A r \in Reqs : rq[r].pc = "done" /\ rq[r].ginc = 1 /\ rq[r].gdec = 1
    /\ \E r \in Reqs : rq[r].handled.kind = "exc"
    /\ \E r \in Reqs : rq[r].handled.kind = "response"
    /\ ACTIVE_REQUESTS = 0

\* C6: a request of the prometheus-functions chain whose handler raised has
\* incremented http_requests_total exactly once, with status_code="500" and
\* its route template, has applied one gauge increment and one decrement,
\* and leaves the chain with the exception its handler raised.
C6_ExceptionRecordedAndReraised ==
    \A r \in Reqs :
        (rq[r].pc = "done" /\ rq[r].handled.kind = "exc") =>
            /\ rq[r].counted = << <<rq[r].method, rq[r].route, "500">> >>
            /\ Value(REQUEST_TOTAL, <<rq[r].method, rq[r].route, "500">>) >= 1
            /\ rq[r].ginc = 1 /\ rq[r].gdec = 1
            /\ rq[r].flow = rq[r].handled

\* C6 witness: a finished request whose handler raised KeyError
C6_Witness ==
    \E r \in Reqs : rq[r].pc = "done" /\ rq[r].handled = Raised("KeyError")

\* the label tuple a finished request is counted under
FinalLabels(r) ==
    <<rq[r].method, NormalizedEndpoint(rq[r]), Str(StatusCode(rq[r].handled))>>

LabelTuples ==
    {k.method : k \in RequestKinds}
      \X ({k.path : k \in RequestKinds} \cup {k.route : k \in RequestKinds})
      \X {"200", "404", "500"}

\* C7: at every state http_requests_total of each label tuple equals the
\* number of completed requests with that method, endpoint and status code
\* (so N of them leave it at N, one increment each), and no step decreases
\* a value.
C7_CounterExactlyOncePerRequest ==
    /\ [](\A L \in LabelTuples :
            Value(REQUEST_TOTAL, L) =
              Cardinality({r \in Reqs : rq[r].pc = "done" /\ FinalLabels(r) = L}))
    /\ [][\A L \in LabelTuples : Value(REQUEST_TOTAL, L)' >= Value(REQUEST_TOTAL, L)]_vars

\* C7 witness: every request has completed by a handler exception under one
\* label tuple, whose value is the number of requests
C7_Witness ==
    \E L \in LabelTuples :
        /\ L[3] = "500"
        /\ Value(REQUEST_TOTAL, L) = Cardinality(Reqs)
        /\ \A r \in Reqs : rq[r].pc = "done" /\ rq[r].counted = <<L>>

\* C9: with recording calls that may raise, a request of the
\* prometheus-functions chain carries up the chain exactly what its handler
\* produced (the same response, or the same exception), and a finished
\* request has had its handler invoked.
C9_RecordingFailureKeepsOutcome ==
    \A r \in Reqs :
        /\ rq[r].flow.kind # "none" => rq[r].flow = rq[r].handled
        /\ rq[r].pc \in {"gauge_finally", "histogram_record", "counter_record", "done"}
             => rq[r].handled.kind # "none"

\* C9 witness: two finished requests whose four recording calls all raised,
\* one handler having returned and one having raised
C9_Witness ==
    /\ \A r \in Reqs :
         rq[r].pc = "done"
         /\ rq[r].faulted = {"gauge_inc", "gauge_dec", "observe", "count"}
    /\ \E r \in Reqs : rq[r].flow = Response(200)
    /\ \E r \in Reqs : rq[r].flow = Raised("ValueError")

(***************************************************************************)
(* Claims about main.py.                                                   *)
(***************************************************************************)
\* C3: during one GET /api/user/{user_id} request, whatever n is drawn,
\* llm_calls_total{function="fetch_user_data",status="failed"} is
\* incremented at most once.
C3_OneFailurePerRequest ==
    \A t \in Tasks :
        inv[t].request => hits[t][<<"fetch_user_data", "failed">>] <= 1

\* C10: an instrumented function whose body raised an application failure
\* has incremented llm_calls_total{function=<name>,status="failed"} exactly
\* once during that invocation, and leaves with the exception its body
\* raised.
C10_FailureRecordedAndReraised ==
    \A t \in Tasks :
        (/\ inv[t].pc = "done"
         /\ inv[t].body.kind = "exc"
         /\ inv[t].body.val \in ApplicationErrors) =>
            /\ hits[t][<<inv[t].fn, "failed">>] - inv[t].base = 1
            /\ inv[t].out = inv[t].body

\* C10 witness: a second invocation of fetch_user_data in one context whose
\* body raised, after a first one that had already recorded a failure
C10_Witness ==
    \E t \in Tasks :
        /\ inv[t].pc = "done" /\ inv[t].fn = "fetch_user_data"
        /\ inv[t].made = 2 /\ inv[t].base = 1
        /\ inv[t].body = Raised("Exception") /\ inv[t].out = Raised("Exception")
        /\ hits[t][<<"fetch_user_data", "failed">>] = 2

(***************************************************************************)
(* Claims about cancellation.                                              *)
(***************************************************************************)
\* C11: a request cancelled while its handler was in flight has had the
\* gauge middleware's decrement applied exactly once for its one increment
\* once the cancellation has left GaugeMiddleware, and the gauge is back at
\* 0 when no started request is unfinished.
C11_CancelledRequestDecrements ==
    /\ \A r \in Reqs :
         (/\ rq[r].handled = Cancelled
          /\ rq[r].pc \in {"histogram_record", "counter_record", "done"}) =>
             rq[r].ginc = 1 /\ rq[r].gdec = 1
    /\ (\A r \in Reqs : rq[r].pc \in {"idle", "done"}) => ACTIVE_REQUESTS = 0

\* C11 witness: a cancelled request has finished while another request is
\* still with its handler, and the gauge counts only the latter
C11_Witness ==
    \E r, u \in Reqs :
        /\ rq[r].pc = "done" /\ rq[r].handled = Cancelled /\ rq[r].flow = Cancelled
        /\ rq[u].pc = "handler"
        /\ ACTIVE_REQUESTS = 1

\* C12: a prometheus-functions request cancelled while its handler was in
\* flight has, when the cancellation leaves the chain, incremented
\* http_requests_total once and observed one duration.
C12_CancelledRequestRecorded ==
    \A r \in Reqs :
        (variant = "pf" /\ rq[r].pc = "done" /\ rq[r].handled = Cancelled) =>
            Len(rq[r].counted) = 1 /\ Len(rq[r].observed) = 1

(***************************************************************************)
(* Claims about PrometheusMiddleware of vm_agents/api.py.                  *)
(***************************************************************************)
\* C13: every finished request of PrometheusMiddleware has incremented the
\* http_requests_active series of its endpoint once and decremented it
\* exactly once, and no series of the gauge is ever negative.
C13_ApiGaugeBalanced ==
    /\ \A r \in Reqs : rq[r].pc = "done" => rq[r].ginc = 1 /\ rq[r].gdec = 1
    /\ \A e \in DOMAIN API_ACTIVE_REQUESTS : API_ACTIVE_REQUESTS[e] >= 0

\* C14: a finished request of PrometheusMiddleware whose handler raised has
\* incremented http_requests_total once with status code 500 and observed
\* one duration.
C14_ApiExceptionRecorded ==
    \A r \in Reqs :
        (rq[r].pc = "done" /\ rq[r].handled.kind = "exc") =>
            /\ rq[r].counted = << <<rq[r].method, rq[r].endpoint, "500">> >>
            /\ Len(rq[r].observed) = 1

(***************************************************************************)
(* Claims about the vm-agents middleware chain.                            *)
(***************************************************************************)
\* C15: a finished request of the vm-agents chain whose handler raised has
\* incremented http_requests_total once with status_code="500", observed
\* one duration, and leaves the chain with the exception its handler raised.
C15_VmExceptionRecorded ==
    \A r \in Reqs :
        (variant = "vm" /\ rq[r].pc = "done" /\ rq[r].handled.kind = "exc") =>
            /\ rq[r].counted = << <<rq[r].method, rq[r].route, "500">> >>
            /\ Len(rq[r].observed) = 1
            /\ rq[r].flow = rq[r].handled

\* C16: with recording calls that may raise, a finished request of the
\* vm-agents chain has had its handler invoked and leaves the chain with
\* what the handler produced.
C16_VmRecordingFailureContained ==
    \A r \in Reqs :
        (variant = "vm" /\ rq[r].pc = "done") =>
            /\ rq[r].handled.kind # "none"
            /\ rq[r].flow = rq[r].handled

(***************************************************************************)
(* Claims about the outcome trackers.                                      *)
(***************************************************************************)
\* C17: in the vm-agents tracker a mark_success(f) or mark_failure(f) for a
\* pair already marked since the last reset_outcome() leaves the counter as
\* it is, and a mark for a pair not marked since the last reset_outcome()
\* increments its series by one.
C17_VmSecondMarkIsNoOp ==
    [][\A fn \in FunctionNames :
         /\ vm_mark_success(fn) =>
              VM_LLM_CALLS'[<<fn, "success">>] =
                VM_LLM_CALLS[<<fn, "success">>]
                  + (IF <<fn, "success">> \in vm_marked THEN 0 ELSE 1)
         /\ vm_mark_failure(fn) =>
              VM_LLM_CALLS'[<<fn, "failure">>] =
                VM_LLM_CALLS[<<fn, "failure">>]
                  + (IF <<fn, "failure">> \in vm_marked THEN 0 ELSE 1)
      ]_vars

\* C18: every mark_success(f) / mark_failure(f) increments the series of
\* its own (function, outcome) pair by one exactly when that pair is not in
\* the caller's tracked set, whatever other pairs the set holds (the other
\* outcome of f, or any outcome of another function g), adds only that pair
\* to the set, and leaves every other series as it is.
C18_KeyedByPair ==
    [][\A t \in Tasks, fn \in FunctionNames :
         /\ mark_success(t, fn) =>
              LET key == <<fn, "success">> IN
              /\ LLM_CALLS'[key] =
                   LLM_CALLS[key] + (IF key \in Tracked(t) THEN 0 ELSE 1)
              /\ \A k \in Keys \ {key} : LLM_CALLS'[k] = LLM_CALLS[k]
              /\ Tracked(t)' = Tracked(t) \cup {key}
         /\ mark_failure(t, fn) =>
              LET key == <<fn, "failed">> IN
              /\ LLM_CALLS'[key] =
                   LLM_CALLS[key] + (IF key \in Tracked(t) THEN 0 ELSE 1)
              /\ \A k \in Keys \ {key} : LLM_CALLS'[k] = LLM_CALLS[k]
              /\ Tracked(t)' = Tracked(t) \cup {key}
      ]_vars

\* C18 witness: through one tracked set, both outcomes of one function and an
\* outcome of another function have each been incremented once
C18_Witness ==
    \E o \in Objs, f \in FunctionNames, g \in FunctionNames :
        /\ f # g
        /\ incs[o][<<f, "success">>] = 1 /\ incs[o][<<f, "failed">>] = 1
        /\ LLM_CALLS[<<f, "success">>] = 1 /\ LLM_CALLS[<<f, "failed">>] = 1
        /\ \E s \in Statuses : incs[o][<<g, s>>] = 1 /\ LLM_CALLS[<<g, s>>] = 1

\* C19: every mark_latency(f, d) adds one observation of d to the latency
\* histogram series of f, whatever the caller's tracked set holds and
\* however many were observed before, and leaves every tracked set and the
\* outcome counter as they are.
C19_LatencyAlwaysObserved ==
    [][\A t \in Tasks, fn \in FunctionNames, d \in Durations :
         mark_latency(t, fn, d) =>
            /\ LLM_LATENCY'[fn] = [count |-> LLM_LATENCY[fn].count + 1,
                                   sum |-> LLM_LATENCY[fn].sum + d]
            /\ \A g \in FunctionNames \ {fn} : LLM_LATENCY'[g] = LLM_LATENCY[g]
            /\ \A u \in Tasks : Tracked(u)' = Tracked(u)
            /\ LLM_CALLS' = LLM_CALLS
      ]_vars

\* C19 witness: two latencies of one function were observed after a task
\* had marked an outcome of that function
C19_Witness ==
    \E t \in Tasks, fn \in FunctionNames :
        /\ LLM_LATENCY[fn].count = 2
        /\ \E s \in Statuses : <<fn, s>> \in Tracked(t)
        /\ steps = 3

(***************************************************************************)
(* Claims about the endpoint label.                                        *)
(***************************************************************************)
\* the endpoint label the policy asks for: the route template when a route
\* matched, the raw path otherwise
PolicyEndpoint(r) == IF rq[r].route # "none" THEN rq[r].route ELSE rq[r].path

\* C20: every finished request of the prometheus-functions chain, whether
\* its handler returned or raised, was counted and observed under the route
\* template when its route matched and under the raw path only when no
\* route matched.
C20_EndpointResolvedAfterRouting ==
    \A r \in Reqs :
        rq[r].pc = "done" =>
            /\ Len(rq[r].counted) = 1 /\ Len(rq[r].observed) = 1
            /\ rq[r].counted[1][2] = PolicyEndpoint(r)
            /\ rq[r].observed[1][1][2] = PolicyEndpoint(r)

\* C20 witness: a request whose handler raised was recorded under its route
\* template, and an unrouted request under its raw path
C20_Witness ==
    \E r, u \in Reqs :
        /\ rq[r].pc = "done" /\ rq[r].handled.kind = "exc"
        /\ rq[r].counted[1][2] = "/api/user/{user_id}"
        /\ rq[r].observed[1][1][2] = "/api/user/{user_id}"
        /\ rq[u].pc = "done" /\ rq[u].route = "none"
        /\ rq[u].counted[1][2] = "/missing"

\* C21: a request of PrometheusMiddleware that matches a parameterised
\* route carries the route template as the endpoint label of its gauge,
\* counter and histogram series, never the raw path.
C21_ApiEndpointIsTemplate ==
    \A r \in Reqs :
        (rq[r].pc \in {"api_handler", "api_after", "done"} /\ rq[r].route # "none") =>
            /\ rq[r].endpoint = rq[r].route
            /\ rq[r].path \notin DOMAIN API_ACTIVE_REQUESTS
            /\ \A L \in DOMAIN REQUEST_TOTAL : L[2] # rq[r].path
            /\ \A L \in DOMAIN REQUEST_DURATION : L[2] # rq[r].path

\* C22: every series metrics_middleware records for a request that matched
\* a route is labelled with a method, a route template and a status code, so
\* the series of matched requests stay within methods x templates x codes.
C22_MonitorEndpointIsTemplate ==
    \A r \in Reqs :
        (rq[r].pc = "done" /\ rq[r].route # "none") =>
            \A i \in DOMAIN rq[r].counted :
                /\ rq[r].counted[i] \in DOMAIN request_counter
                /\ rq[r].counted[i] \in DOMAIN request_duration
                /\ rq[r].counted[i][2] \in MonitorRouteTemplates

C23_RegistriesIsolated ==
    [][/\ \A w \in Workers :
            (\E op_name \in OperationNames, result \in Results,
                op_duration \in OperationDurations :
                 run_worker(w, op_name, result, op_duration)) =>
                /\ \A u \in Workers \ {w} :
                     worker[u].pc # "new" =>
                         Collect(worker[u].registry)' = Collect(worker[u].registry)
                /\ \A g \in PodRegistries : Collect(g)' = Collect(g)
       /\ \A pod \in PodRegistries :
            (\E status \in Results : pod_mark(pod, status)) =>
                \A g \in RegistryIds \ {pod} : Collect(g)' = Collect(g)]_vars

\* two instances started with the same instance id, one of which has
\* incremented a series the other has not
C23_Witness ==
    \E a, b \in Workers :
        /\ a # b
        /\ worker[a].pc # "new" /\ worker[b].pc # "new"
        /\ worker[a].instance_id = worker[b].instance_id
        /\ \E L \in DOMAIN Collect(worker[b].registry)["script_operations_total"] :
               L \notin DOMAIN Collect(worker[a].registry)["script_operations_total"]
        /\ \E status \in Results :
               /\ <<status>> \in DOMAIN Collect(MainRegistry)["vm_agent_calls_total"]
               /\ <<status>> \notin DOMAIN Collect(MetricsRegistry)["vm_agent_calls_total"]

\* C24: every instrument of the vm-agents prometheus package is registered
\* in GLOBAL_REGISTRY, and once mark_success(f) has incremented
\* llm_calls_total{function=f,status="success"}, a collect of the exported
\* REGISTRY contains that series with the incremented value.
C24_VmInstrumentsInGlobalRegistry ==
    (\E f \in FunctionNames : VM_LLM_CALLS[<<f, "success">>] > 0) =>
        /\ \A name \in DOMAIN VmRegistryOf : VmRegistryOf[name] = GLOBAL_REGISTRY
        /\ "llm_calls_total" \in DOMAIN VmCollect(VmExportedRegistry)
        /\ \A f \in FunctionNames :
             VmCollect(VmExportedRegistry)["llm_calls_total"][<<f, "success">>]
                 = VM_LLM_CALLS[<<f, "success">>]

\* C25: an observation of v increases by exactly 1 the cumulative count of
\* every bucket whose bound is >= v, +Inf included, leaves the buckets with
\* a bound < v unchanged, adds v to the sum and 1 to the count; cumulative
\* counts never decrease with the bound and the +Inf bucket equals the count.
C25_ObserveBuckets ==
    /\ [](/\ \A i \in 1..(Inf - 1) :
                Cumulative(histogram, i) <= Cumulative(histogram, i + 1)
          /\ Cumulative(histogram, Inf) = Count(histogram)
          /\ Count(histogram) = Observations)
    /\ [][\A v \in ObservedDurationsMs :
            observe(v) =>
                /\ \A i \in 1..(Inf - 1) :
                     Cumulative(histogram', i) =
                         Cumulative(histogram, i) + (IF Buckets[i] >= v THEN 1 ELSE 0)
                /\ Cumulative(histogram', Inf) = Cumulative(histogram, Inf) + 1
                /\ histogram'.sum = histogram.sum + v
                /\ Count(histogram') = Count(histogram) + 1]_vars

\* values on a bound, between bounds and above the last bound were observed
C25_Witness ==
    /\ histogram.buckets[1] > 0
    /\ histogram.buckets[2] > 0
    /\ histogram.buckets[Inf] > 0
    /\ histogram.sum = 10 + 11 + 10001

(***************************************************************************)
(* Claims about the push task and the requests of the event loop.          *)
(***************************************************************************)
\* C26: every push attempt, the first included, directly follows exactly
\* one interval sleep, and every sleep but the first directly follows the
\* line logged for the previous attempt; a push that raised is logged as an
\* error and leaves the task in its next sleep; only a cancellation ends
\* the task.
C26_OneSleepBeforeEachPush ==
    /\ [](/\ \A i \in DOMAIN push.trace :
                /\ push.trace[i] = "push" => i > 1 /\ push.trace[i - 1] = "sleep"
                /\ push.trace[i] = "sleep" =>
                       i = 1 \/ push.trace[i - 1] \in {"info", "error"}
                /\ push.trace[i] \in {"info", "error"} =>
                       i > 1 /\ push.trace[i - 1] = "push"
          /\ push.pc = "cancelled" => push.delivered)
    /\ [][PushEnd("raised") =>
            /\ push'.pc = "sleeping"
            /\ push'.trace = Append(push.trace, "error")
            /\ running' = NoTask]_vars

\* a push failed, was logged, and the next attempt started after one sleep
C26_Witness ==
    /\ Len(push.trace) >= 5
    /\ SubSeq(push.trace, 1, 5) = <<"sleep", "push", "error", "sleep", "push">>

\* C27: while a push_to_gateway call is in progress, a request whose
\* awaited sleep has ended can be resumed, and a new request can be started.
C27_PushDoesNotBlockRequests ==
    push.pc = "pushing" =>
        \A t \in Tasks :
            /\ inv[t].pc = "p_await" => ENABLED ProfileResume(t, "slept")
            /\ (task_state[t] = "idle" /\ Made < MaxCalls
                /\ \A u \in Tasks : u < t => task_state[u] = "running")
                   => ENABLED get_user_profile(t)

\* C28: once the cancellation requested by shutdown_event has been delivered
\* the task has ended, and from the moment shutdown_event has run no
\* push_to_gateway call starts.
C28_ShutdownStopsPushing ==
    /\ [](push.delivered => push.pc = "cancelled")
    /\ [][push.shutdown =>
            Cardinality({i \in DOMAIN push'.trace : push'.trace[i] = "push"})
                = Attempts]_vars

\* the task pushed, was cancelled in its next sleep and has ended, with
\* attempts to spare
C28_Witness ==
    /\ push.delivered
    /\ push.pc = "cancelled"
    /\ Attempts >= 1
    /\ Attempts < MaxPushes

\* C30: when the k requests made so far have all returned, each of the five
\* functions has llm_calls_total{status="success"} = k and no
\* status="failed" series has been incremented.
C30_ProfileCallsAccumulate ==
    (\A t \in Tasks :
         task_state[t] = "running" =>
             inv[t].pc = "done" /\ inv[t].out = ReturnedValue) =>
        /\ \A f \in ProfileFunctions :
             LLM_CALLS[<<f, "success">>] = Made
        /\ \A f \in ProfileFunctions : LLM_CALLS[<<f, "failed">>] = 0

\* two requests, one after the other, have returned
C30_Witness ==
    /\ Made = 2
    /\ \A t \in 1..2 : inv[t].pc = "done" /\ inv[t].out = ReturnedValue
    /\ \A f \in ProfileFunctions : LLM_CALLS[<<f, "success">>] = 2

(***************************************************************************)
(* Claims about the composition of the middlewares.                        *)
(***************************************************************************)
\* C31: CounterMiddleware is outermost and GaugeMiddleware innermost: for
\* every request the gauge increment follows the start of the histogram
\* timer, the handler follows the gauge increment, the gauge decrement the
\* handler, the duration observation the gauge decrement, and the counter
\* increment the observation.
C31_ChainOrder ==
    \A r \in Reqs :
        LET q == rq[r] IN
        /\ q.ginc > 0 =>
             q.pc \in {"handler", "gauge_finally", "histogram_record",
                       "counter_record", "done"}
        /\ q.handled # NoFlow => q.ginc = 1
        /\ q.gdec > 0 => q.handled # NoFlow /\ q.ginc = 1
        /\ q.observed # <<>> => q.gdec = 1
        /\ q.counted # <<>> => q.observed # <<>> /\ q.gdec = 1
        /\ q.pc = "done" =>
             Len(q.counted) = 1 /\ Len(q.observed) = 1 /\ q.gdec = 1 /\ q.ginc = 1

\* one request whose handler raised is counted while another has had its
\* gauge decrement and observation but not yet its counter increment
C31_Witness ==
    \E a, b \in Reqs :
        /\ rq[a].pc = "done" /\ rq[a].handled.kind = "exc"
        /\ Len(rq[a].counted) = 1
        /\ rq[b].pc = "counter_record" /\ rq[b].gdec = 1
        /\ Len(rq[b].observed) = 1 /\ rq[b].counted = <<>>

\* C32: a step of a middleware changes only that middleware's instrument and
\* neither llm_calls_total nor the tracked sets, and what a middleware has
\* recorded for a finished request depends only on the request, on what its
\* handler produced and on whether that middleware is installed, not on
\* which of the other two are.
C32_OneConcernEach ==
    /\ [](\A r \in Reqs :
            LET q == rq[r]
                endpoint == IF q.route # "none" THEN q.route ELSE q.path
            IN  q.pc = "done" =>
                  /\ q.counted =
                       IF "counter" \in installed
                         THEN << <<q.method, endpoint, Str(StatusCode(q.handled))>> >>
                         ELSE <<>>
                  /\ Len(q.observed) = IF "histogram" \in installed THEN 1 ELSE 0
                  /\ \A i \in DOMAIN q.observed :
                       q.observed[i][1] = <<q.method, endpoint>>
                  /\ q.ginc = (IF "gauge" \in installed THEN 1 ELSE 0)
                  /\ q.gdec = q.ginc)
    /\ [][/\ (\E r \in Reqs : CounterRecord(r)) =>
                UNCHANGED <<REQUEST_DURATION, ACTIVE_REQUESTS, LLM_CALLS, set_objs,
                            outcomes_marked>>
          /\ (\E r \in Reqs : HistogramEnter(r) \/ HistogramRecord(r)) =>
                UNCHANGED <<REQUEST_TOTAL, ACTIVE_REQUESTS, LLM_CALLS, set_objs,
                            outcomes_marked>>
          /\ (\E r \in Reqs : GaugeEnter(r) \/ GaugeFinally(r)) =>
                UNCHANGED <<REQUEST_TOTAL, REQUEST_DURATION, LLM_CALLS, set_objs,
                            outcomes_marked>>]_vars

\* only CounterMiddleware is installed, and it has counted a request whose
\* handler raised
C32_Witness ==
    /\ installed = {"counter"}
    /\ \E r \in Reqs :
         /\ rq[r].pc = "done"
         /\ rq[r].handled.kind = "exc"
         /\ rq[r].counted = << <<"GET", "/api/user/{user_id}", "500">> >>
    /\ ACTIVE_REQUESTS = 0
    /\ REQUEST_DURATION = <<>>

\* the durations observed under a label pair by the requests of `among`
RECURSIVE ObservedUnder(_, _)
ObservedUnder(labels, among) ==
    IF among = {} THEN [count |-> 0, sum |-> 0]
    ELSE LET r == CHOOSE x \in among : TRUE
             rest == ObservedUnder(labels, among \ {r})
             mine == {i \in DOMAIN rq[r].observed : rq[r].observed[i][1] = labels}
         IN  IF mine = {} THEN rest
             ELSE [count |-> rest.count + 1,
                   sum |-> rest.sum + rq[r].observed[CHOOSE i \in mine : TRUE][2]]

\* C33: a scrape between two steps reads, for every series, a value made of
\* whole updates only: http_requests_total is the number of requests whose
\* increment has been applied, and the count and the sum of
\* http_request_duration_ms are those of the requests whose observation has
\* been applied; the two updates of one request are separate steps, so a
\* request is between them (observed, not yet counted) exactly while
\* CounterMiddleware has still to record.
C33_SeriesWholeButNotJoint ==
    /\ \A L \in DOMAIN REQUEST_TOTAL :
         REQUEST_TOTAL[L] = Cardinality({r \in Reqs : rq[r].counted = <<L>>})
    /\ \A r \in Reqs : \A i \in DOMAIN rq[r].counted :
         rq[r].counted[i] \in DOMAIN REQUEST_TOTAL
    /\ \A L \in DOMAIN REQUEST_DURATION :
         REQUEST_DURATION[L] = ObservedUnder(L, Reqs)
    /\ \A r \in Reqs : \A i \in DOMAIN rq[r].observed :
         rq[r].observed[i][1] \in DOMAIN REQUEST_DURATION
    /\ \A r \in Reqs :
         (rq[r].observed # <<>> /\ rq[r].counted = <<>>) <=> rq[r].pc = "counter_record"

\* a scrape now reads the duration of a request under
\* http_request_duration_ms and no increment of http_requests_total for it,
\* while another request with the same labels has both
C33_Witness ==
    \E a, b \in Reqs :
        /\ rq[a].pc = "counter_record"
        /\ Len(rq[a].observed) = 1
        /\ rq[a].counted = <<>>
        /\ REQUEST_DURATION[rq[a].observed[1][1]].count = 2
        /\ rq[b].pc = "done"
        /\ rq[b].observed[1][1] = rq[a].observed[1][1]
        /\ \A L \in DOMAIN REQUEST_TOTAL : REQUEST_TOTAL[L] = 1

\* C34: the step in which an invocation of an instrumented function ends, by
\* returning or by raising, is the one step of that invocation that
\* increments llm_calls_total for the function's name, and it increments
\* exactly one of the success and failed series, exactly once.
C34_OneOutcomePerInvocation ==
    [][\A t \in Tasks :
          LET fn == inv[t].fn
              recorded == (hits'[t][<<fn, "success">>] - hits[t][<<fn, "success">>])
                          + (hits'[t][<<fn, "failed">>] - hits[t][<<fn, "failed">>])
          IN  (inv[t].pc \in {"body", "except"} /\ fn \in FunctionNames) =>
                 /\ inv'[t].pc = "done" => recorded = 1
                 /\ inv'[t].pc # "done" => recorded = 0]_vars

\* C35: a tracked set holds a pair only if an increment of llm_calls_total
\* for that pair succeeded through that set, which exists since the last
\* reset_outcome() of its context; a call whose increment raises leaves every
\* tracked set and the counter as they were, and a mark of a pair that its
\* tracked set does not hold always attempts the increment (it raises or the
\* counter goes up by one and the pair is added).
C35_TrackedOnlyAfterIncrement ==
    /\ [](\A o \in DOMAIN set_objs, k \in Keys : k \in set_objs[o] => incs[o][k] >= 1)
    /\ [][/\ (steps' = steps + 1 /\ call_result'.fault # "ok") =>
                UNCHANGED <<set_objs, outcomes_marked, LLM_CALLS>>
          /\ \A o \in DOMAIN set_objs, k \in Keys :
               (/\ calls'[o][k] = calls[o][k] + 1
                /\ k \notin set_objs[o]
                /\ call_result'.fault = "ok") =>
                  /\ LLM_CALLS'[k] = LLM_CALLS[k] + 1
                  /\ k \in set_objs'[o]]_vars

\* through one tracked set a mark has succeeded and a mark of another pair
\* has just raised, which left the set without that pair
C35_Witness ==
    \E o \in DOMAIN set_objs, k, l \in Keys :
        /\ k # l
        /\ calls[o][l] = 1 /\ incs[o][l] = 0 /\ l \notin set_objs[o]
        /\ call_result.fault # "ok" /\ call_result.ended = "returned"
        /\ calls[o][k] = 1 /\ incs[o][k] = 1 /\ set_objs[o] = {k}

\* C36: with recording calls that may raise, the decrements applied to
\* http_requests_active never outnumber the increments applied (the gauge
\* never goes below its initial 0), and a request whose increment raised
\* and was swallowed applies no decrement.
C36_DecrementsWithinIncrements ==
    /\ ACTIVE_REQUESTS >= 0
    /\ \A r \in Reqs :
         /\ rq[r].gdec <= rq[r].ginc
         /\ "gauge_inc" \in rq[r].faulted => rq[r].gdec = 0

(***************************************************************************)
(* Claims about the loop of run_worker.                                    *)
(***************************************************************************)
\* C37: run_worker returns after exactly max_operations passes through its
\* loop body, for every max_operations >= 0, also when a recording call
\* raises: the passes begun never exceed max_operations, and the function
\* has returned only after max_operations of them.
C37_ExactlyMaxOperations ==
    /\ script.iterations <= script.max_operations
    /\ script.pc = "exited" => script.iterations = script.max_operations

\* C38: whenever the loop of run_worker tests its condition, the sum of
\* script_operations_total over its label tuples, operation_count and the
\* number of observations of script_operation_duration_seconds are equal;
\* when the function has returned all three equal max_operations.
C38_CountsAgree ==
    LET total == CounterSum(script.counter, DOMAIN script.counter)
        observed == ObservationCount(script.histogram, DOMAIN script.histogram)
    IN  /\ script.pc \in {"while", "exited"} =>
             /\ total = script.operation_count
             /\ observed = script.operation_count
        /\ script.pc = "exited" =>
             /\ script.operation_count = script.max_operations
             /\ total = script.max_operations
             /\ observed = script.max_operations

\* run_worker has returned after two operations of the same name and result
C38_Witness ==
    /\ script.pc = "exited"
    /\ script.max_operations = 2
    /\ script.operation_count = 2
    /\ \E L \in DOMAIN script.counter : script.counter[L] = 2
    /\ \E L \in DOMAIN script.histogram : script.histogram[L].count = 2

(***************************************************************************)
(* Claims about day2/main.py.                                              *)
(***************************************************************************)
\* C39: for every list of buckets the script ends normally, not by an
\* exception; the queue never holds anything but buckets of the input over
\* 50 GB, and at the end it is empty and the output is the header followed
\* by the names of exactly the buckets over 50 GB, in input order.
C39_QueuesAndPrintsLargeBuckets ==
    /\ day2.pc # "raised"
    /\ \A i \in DOMAIN day2.q : day2.q[i].sizeGB > SizeThresholdGB
    /\ day2.pc = "while" =>
         Tail(day2.printed) \o [i \in DOMAIN day2.q |-> day2.q[i].name]
           = NamesOver(day2.data)
    /\ day2.pc = "exited" =>
         /\ day2.q = <<>>
         /\ day2.printed = <<Header>> \o NamesOver(day2.data)

====
